---- MODULE Spec2Model ----
(***************************************************************************)
(* A model of the register-allocating Jack compiler of alt/reg.py          *)
(* (flattener, liveness analysis, spill selection, promotion, graph        *)
(* colouring, register lock-down) and of the call/return frame protocol    *)
(* its translator emits.                                                   *)
(*                                                                         *)
(* IR nodes are records tagged by the field k, which holds the name of     *)
(* the Python NamedTuple class.  An Optional statement list (If.when_false)*)
(* is a list plus the flag has_when_false; None is the flag being FALSE.   *)
(***************************************************************************)
EXTENDS Integers, Sequences, FiniteSets, TLC

(***************************************************************************)
(* Bounds of the model.                                                    *)
(***************************************************************************)
MaxPre == 1          \* statements in front of the main statement of an input
MaxBody == 2         \* statements in the body of an input if/while
MaxRounds == 2       \* fallback promotions followed before the run is cut
SmallRegCount == 2   \* the small reg_count phase_two is also run with
MaxPermuted == 3     \* size of the sets iterated in every order
MaxVertices == 3     \* vertices of the graphs handed to color_graph alone
MaxArgs == 2         \* arguments of the call followed through the frame protocol
MaxVars == 1         \* locals the callee's prologue pushes
MaxDepth == 1        \* cells of the caller below the arguments
MaxCalleeSteps == 2  \* steps of the callee's body between its prologue and its return
MaxWord == 8         \* magnitude of the word values tried in conditions
ManyLocals == 12     \* locals of the subroutines that do not fit the registers
MaxMult == 3         \* largest multiplier poked into R1
MaxConst == 2        \* largest constant operand of the statements translated
NBits == 5           \* bits of the trace vector of the NandVectors built

(***************************************************************************)
(* Generic helpers.                                                        *)
(***************************************************************************)
SeqToSet(s) == { s[i] : i \in 1..Len(s) }

RECURSIVE AllOrders(_), Canonical(_)
AllOrders(S) == IF S = {} THEN { <<>> } ELSE UNION { { << e >> \o p : p \in AllOrders(S \ {e}) } : e \in S }

Canonical(S) == IF S = {} THEN <<>> ELSE LET e == CHOOSE e \in S : TRUE IN << e >> \o Canonical(S \ {e})

Rotations(s) == { [i \in 1..Len(s) |-> s[((i + r - 1) % Len(s)) + 1]] : r \in 0..(Len(s) - 1) }

Reversed(s) == [i \in 1..Len(s) |-> s[Len(s) + 1 - i]]

\* The orders in which the runtime is taken to iterate a set: every order for a
\* set of up to MaxPermuted elements, and for a larger set the rotations of one
\* order and of its reverse.
Orderings(S) ==
    IF Cardinality(S) <= MaxPermuted THEN AllOrders(S)
    ELSE Rotations(Canonical(S)) \cup Rotations(Reversed(Canonical(S)))

RECURSIVE IndexOf(_, _)
IndexOf(s, e) == IF s[1] = e THEN 1 ELSE 1 + IndexOf(Tail(s), e)

(***************************************************************************)
(* The IR (reg.py lines 65-162).                                           *)
(***************************************************************************)
Eval(dest, expr) == [k |-> "Eval", dest |-> dest, expr |-> expr]
IndirectWrite(address, value) == [k |-> "IndirectWrite", address |-> address, value |-> value]
Store(location, value) == [k |-> "Store", location |-> location, value |-> value]
If(value, cmp, when_true, has_when_false, when_false) == [k |-> "If", value |-> value, cmp |-> cmp, when_true |-> when_true, has_when_false |-> has_when_false, when_false |-> when_false]
While(test, value, cmp, body) == [k |-> "While", test |-> test, value |-> value, cmp |-> cmp, body |-> body]
Return(expr) == [k |-> "Return", expr |-> expr]
Push(expr) == [k |-> "Push", expr |-> expr]
Discard(expr) == [k |-> "Discard", expr |-> expr]
CallSub(class_name, sub_name, num_args) == [k |-> "CallSub", class_name |-> class_name, sub_name |-> sub_name, num_args |-> num_args]
Const(value) == [k |-> "Const", value |-> value]
Local(name) == [k |-> "Local", name |-> name]
Location(kind, index, name) == [k |-> "Location", kind |-> kind, index |-> index, name |-> name]
Reg(index, name) == [k |-> "Reg", index |-> index, name |-> name]
Binary(left, op, right) == [k |-> "Binary", left |-> left, op |-> op, right |-> right]
Unary(op, value) == [k |-> "Unary", op |-> op, value |-> value]
IndirectRead(address) == [k |-> "IndirectRead", address |-> address]
LiveStmt(statement, before, during, after) == [statement |-> statement, before |-> before, during |-> during, after |-> after]

\* Value = Union[Const, Local, Reg]
IsValue(e) == e.k \in {"Const", "Local", "Reg"}

(***************************************************************************)
(* Liveness analysis (reg.py lines 452-621).                               *)
(***************************************************************************)
RECURSIVE refs(_)
refs(expr) ==
    IF expr.k = "Local" THEN {expr.name}
    ELSE IF expr.k = "Binary" THEN refs(expr.left) \cup refs(expr.right)
    ELSE IF expr.k = "Unary" THEN refs(expr.value)
    ELSE IF expr.k = "IndirectRead" THEN refs(expr.address)
    ELSE {}

\* "when analysis is repeated, strip out previous annotations"
strip_annotation(stmt) == IF "statement" \in DOMAIN stmt THEN stmt.statement ELSE stmt

\* the set live where a block starts: the "before" of its first statement, or of what follows an empty block
live_at_start(liveness, live_at_end) == IF Len(liveness) > 0 THEN liveness[1].before ELSE live_at_end

written(stmt) == IF stmt.k = "Eval" THEN refs(stmt.dest) ELSE {}

read(stmt) ==
    IF stmt.k = "Eval" THEN refs(stmt.expr)
    ELSE IF stmt.k = "IndirectWrite" THEN refs(stmt.address) \cup refs(stmt.value)
    ELSE IF stmt.k = "Store" THEN refs(stmt.value)
    ELSE IF stmt.k = "Return" THEN refs(stmt.expr)
    ELSE IF stmt.k = "Push" THEN refs(stmt.expr)
    ELSE {}

RECURSIVE analyze_liveness(_, _), analyze_if(_, _), analyze_while(_, _), analyze_statement(_, _), analyze_statement_strong(_, _)

\* returns <<stmt, live>>; without an "else" block when_false_liveness is empty and its start is live_at_end
analyze_if(stmt, live_at_end) ==
    LET result(when_true_liveness, when_false_liveness) ==
            << If(stmt.value, stmt.cmp, when_true_liveness, stmt.has_when_false, when_false_liveness),
               (live_at_start(when_true_liveness, live_at_end) \cup live_at_start(when_false_liveness, live_at_end))
                   \cup refs(stmt.value) >>
    IN result(analyze_liveness(stmt.when_true, live_at_end),
              IF stmt.has_when_false THEN analyze_liveness(stmt.when_false, live_at_end) ELSE <<>>)

\* returns <<stmt, live>>
analyze_while(stmt, live_at_end) ==
    LET result(body_liveness, live_at_body_start, test_liveness) ==
            << While(test_liveness, stmt.value, stmt.cmp, body_liveness),
               live_at_start(test_liveness, live_at_body_start) >>
        test(body_liveness, live_at_body_start) ==
            result(body_liveness, live_at_body_start,
                   analyze_liveness(stmt.test, live_at_body_start \cup refs(stmt.value)))
        loop(body_liveness) == test(body_liveness, live_at_start(body_liveness, live_at_end))
    IN loop(analyze_liveness(stmt.body, live_at_end))

\* an iteration that counts what an Eval reads only if what it writes is live after it
analyze_statement_strong(stmt0, live_set) ==
    LET needed(stmt, live) == IF stmt.k = "Eval" /\ written(stmt) \cap live = {} THEN {} ELSE read(stmt)
        annotate(stmt, pair) ==
            LiveStmt(pair[1], (pair[2] \ written(stmt)) \cup needed(stmt, pair[2]), pair[2] \ written(stmt), pair[2])
        again(stmt1) == analyze_while(stmt1[1], stmt1[2])
        analyze(stmt) ==
            annotate(stmt, IF stmt.k = "If" THEN analyze_if(stmt, live_set)
                           ELSE IF stmt.k = "While" THEN again(analyze_while(stmt, live_set))
                           ELSE << stmt, live_set >>)
    IN analyze(strip_annotation(stmt0))

\* one iteration of the loop over reversed(stmts); live_set is the set live after the statement
analyze_statement(stmt0, live_set) ==
    LET annotate(stmt, pair) ==
            LiveStmt(pair[1], (pair[2] \ written(stmt)) \cup read(stmt), pair[2] \ written(stmt), pair[2])
        again(stmt1) == analyze_while(stmt1[1], stmt1[2])
        analyze(stmt) ==
            annotate(stmt, IF stmt.k = "If" THEN analyze_if(stmt, live_set)
                           ELSE IF stmt.k = "While" THEN again(analyze_while(stmt, live_set))
                           ELSE << stmt, live_set >>)
    IN analyze(strip_annotation(stmt0))

analyze_liveness(stmts, live_at_end) ==
    IF stmts = <<>> THEN <<>>
    ELSE LET insert(result) ==
                 IF Len(result) = 0 THEN << analyze_statement(Head(stmts), live_at_end) >>
                 ELSE << analyze_statement(Head(stmts), result[1].before) >> \o result
         IN insert(analyze_liveness(Tail(stmts), live_at_end))

\* the assertion "Liveness fixed point not reached" (line 563) holds wherever the analysis meets a While
RECURSIVE fixed_point_reached(_, _)
fixed_point_reached(stmts, live_at_end) ==
    IF stmts = <<>> THEN TRUE
    ELSE LET twice(stmt, live_set, stmt1, stmt2) ==
                 /\ stmt2[2] = stmt1[2]
                 /\ fixed_point_reached(stmt.body, live_set)
                 /\ fixed_point_reached(stmt.test, live_at_start(stmt1[1].body, live_set) \cup refs(stmt.value))
                 /\ fixed_point_reached(stmt.body, stmt1[2])
                 /\ fixed_point_reached(stmt.test, live_at_start(stmt2[1].body, stmt1[2]) \cup refs(stmt.value))
             once(stmt, live_set, stmt1) == twice(stmt, live_set, stmt1, analyze_while(stmt1[1], stmt1[2]))
             at(stmt, live_set) ==
                 IF stmt.k = "If"
                 THEN /\ fixed_point_reached(stmt.when_true, live_set)
                      /\ fixed_point_reached(stmt.when_false, live_set)
                 ELSE IF stmt.k = "While" THEN once(stmt, live_set, analyze_while(stmt, live_set))
                 ELSE TRUE
         IN /\ fixed_point_reached(Tail(stmts), live_at_end)
            /\ at(strip_annotation(Head(stmts)),
                  live_at_start(analyze_liveness(Tail(stmts), live_at_end), live_at_end))

IsCall(stmt) == stmt.k \in {"Eval", "Push", "Discard"} /\ stmt.expr.k = "CallSub"

RECURSIVE need_saving(_)
need_saving(liveness) ==
    IF liveness = <<>> THEN {}
    ELSE LET l == Head(liveness)
             here == IF IsCall(l.statement) THEN l.before
                     ELSE IF l.statement.k = "If"
                          THEN need_saving(l.statement.when_true) \cup
                               (IF l.statement.has_when_false THEN need_saving(l.statement.when_false) ELSE {})
                     ELSE IF l.statement.k = "While"
                          THEN need_saving(l.statement.test) \cup need_saving(l.statement.body)
                     ELSE {}
         IN here \cup need_saving(Tail(liveness))

(***************************************************************************)
(* promote_locals (reg.py lines 624-712).  map is a function from the      *)
(* names of the promoted Locals to their Locations; the counter            *)
(* extra_var_count is threaded through as n.                               *)
(***************************************************************************)
promote_next_var(prefix, name, n) == Local("$" \o prefix \o name \o ToString(n))

InMap(value, map) == value.k = "Local" /\ value.name \in DOMAIN map

promote_rewrite_value(value, map, prefix, n) ==
    IF InMap(value, map)
    THEN [stmts |-> << Eval(promote_next_var(prefix, map[value.name].name, n), map[value.name]) >>,
          value |-> promote_next_var(prefix, map[value.name].name, n), n |-> n + 1]
    ELSE [stmts |-> <<>>, value |-> value, n |-> n]

\* a promoter that leaves a promoted Local standing alone as an expression
promote_rewrite_expr_keeps_local(expr, map, prefix, n) ==
    IF expr.k \in {"CallSub", "Const", "Location", "Local"} THEN [stmts |-> <<>>, expr |-> expr, n |-> n]
    ELSE IF expr.k = "Binary"
    THEN LET binary(l, r) == [stmts |-> l.stmts \o r.stmts, expr |-> Binary(l.value, expr.op, r.value), n |-> r.n]
             right(l) == binary(l, promote_rewrite_value(expr.right, map, prefix, l.n))
         IN right(promote_rewrite_value(expr.left, map, prefix, n))
    ELSE IF expr.k = "Unary"
    THEN LET unary(v) == [stmts |-> v.stmts, expr |-> Unary(expr.op, v.value), n |-> v.n]
         IN unary(promote_rewrite_value(expr.value, map, prefix, n))
    ELSE LET indirect(a) == [stmts |-> a.stmts, expr |-> IndirectRead(a.value), n |-> a.n]
         IN indirect(promote_rewrite_value(expr.address, map, prefix, n))

promote_rewrite_expr(expr, map, prefix, n) ==
    IF expr.k \in {"CallSub", "Const", "Location"} THEN [stmts |-> <<>>, expr |-> expr, n |-> n]
    ELSE IF expr.k = "Local"
    THEN [stmts |-> <<>>, expr |-> IF InMap(expr, map) THEN map[expr.name] ELSE expr, n |-> n]
    ELSE IF expr.k = "Binary"
    THEN LET binary(l, r) == [stmts |-> l.stmts \o r.stmts, expr |-> Binary(l.value, expr.op, r.value), n |-> r.n]
             right(l) == binary(l, promote_rewrite_value(expr.right, map, prefix, l.n))
         IN right(promote_rewrite_value(expr.left, map, prefix, n))
    ELSE IF expr.k = "Unary"
    THEN LET unary(v) == [stmts |-> v.stmts, expr |-> Unary(expr.op, v.value), n |-> v.n]
         IN unary(promote_rewrite_value(expr.value, map, prefix, n))
    ELSE \* IndirectRead
         LET indirect(a) == [stmts |-> a.stmts, expr |-> IndirectRead(a.value), n |-> a.n]
         IN indirect(promote_rewrite_value(expr.address, map, prefix, n))

RECURSIVE promote_rewrite_statement(_, _, _, _), promote_rewrite_statements(_, _, _, _)

\* both return [stmts, n]
promote_rewrite_statement(stmt, map, prefix, n) ==
    IF stmt.k = "Eval"
    THEN LET eval(e) ==
                 IF InMap(stmt.dest, map)
                 THEN IF e.expr.k \in {"Const", "Local"}
                      THEN [stmts |-> e.stmts \o << Store(map[stmt.dest.name], e.expr) >>, n |-> e.n]
                      ELSE [stmts |-> e.stmts \o
                                      << Eval(promote_next_var(prefix, map[stmt.dest.name].name, e.n), e.expr),
                                         Store(map[stmt.dest.name], promote_next_var(prefix, map[stmt.dest.name].name, e.n)) >>,
                            n |-> e.n + 1]
                 ELSE [stmts |-> e.stmts \o << Eval(stmt.dest, e.expr) >>, n |-> e.n]
         IN eval(promote_rewrite_expr(stmt.expr, map, prefix, n))
    ELSE IF stmt.k = "IndirectWrite"
    THEN LET write(a, v) == [stmts |-> a.stmts \o v.stmts \o << IndirectWrite(a.value, v.value) >>, n |-> v.n]
             written_value(a) == write(a, promote_rewrite_value(stmt.value, map, prefix, a.n))
         IN written_value(promote_rewrite_value(stmt.address, map, prefix, n))
    ELSE IF stmt.k = "Store"
    THEN LET store(v) == [stmts |-> v.stmts \o << Store(stmt.location, v.expr) >>, n |-> v.n]
         IN store(promote_rewrite_expr(stmt.value, map, prefix, n))
    ELSE IF stmt.k = "If"
    THEN LET branch(v, t, f) ==
                 [stmts |-> v.stmts \o << If(v.expr, stmt.cmp, t.stmts, stmt.has_when_false, f.stmts) >>, n |-> f.n]
             when_false(v, t) ==
                 branch(v, t, IF stmt.has_when_false THEN promote_rewrite_statements(stmt.when_false, map, prefix, t.n)
                              ELSE [stmts |-> <<>>, n |-> t.n])
             when_true(v) == when_false(v, promote_rewrite_statements(stmt.when_true, map, prefix, v.n))
         IN when_true(promote_rewrite_expr(stmt.value, map, prefix, n))
    ELSE IF stmt.k = "While"
    THEN LET loop(t, v, b) == [stmts |-> << While(t.stmts \o v.stmts, v.expr, stmt.cmp, b.stmts) >>, n |-> b.n]
             loop_body(t, v) == loop(t, v, promote_rewrite_statements(stmt.body, map, prefix, v.n))
             tested(t) == loop_body(t, promote_rewrite_expr(stmt.value, map, prefix, t.n))
         IN tested(promote_rewrite_statements(stmt.test, map, prefix, n))
    ELSE IF stmt.k = "Return"
    THEN LET return(v) == [stmts |-> v.stmts \o << Return(v.expr) >>, n |-> v.n]
         IN return(promote_rewrite_expr(stmt.expr, map, prefix, n))
    ELSE IF stmt.k = "Push"
    THEN LET push(e) == [stmts |-> e.stmts \o << Push(e.expr) >>, n |-> e.n]
         IN push(promote_rewrite_expr(stmt.expr, map, prefix, n))
    ELSE \* Discard
         [stmts |-> << stmt >>, n |-> n]

promote_rewrite_statements(stmts, map, prefix, n) ==
    IF stmts = <<>> THEN [stmts |-> <<>>, n |-> n]
    ELSE LET concat(h, t) == [stmts |-> h.stmts \o t.stmts, n |-> t.n]
             rest(h) == concat(h, promote_rewrite_statements(Tail(stmts), map, prefix, h.n))
         IN rest(promote_rewrite_statement(Head(stmts), map, prefix, n))

promote_locals(stmts, map, prefix) == promote_rewrite_statements(stmts, map, prefix, 0).stmts

(***************************************************************************)
(* color_graph (reg.py lines 731-777).  vertices is a sequence, edges a    *)
(* set of pairs; the result is the list color_sets.  Python colour c is    *)
(* element c + 1 of the list.                                              *)
(***************************************************************************)
\* a colourer that enters each edge in one direction only
adjacency_one_way(v, edges) == { e[2] : e \in { d \in edges : d[1] = v } }

adjacency(v, edges) == { e[2] : e \in { d \in edges : d[1] = v } } \cup { e[1] : e \in { d \in edges : d[2] = v } }

\* a colourer that opens a new colour set for every vertex
color_vertex_new_color(v, edges, st) ==
    LET assign(color, neighbours) ==
            [color_sets |-> Append(st.color_sets, {v}),
             prohibited_colors |-> [a \in DOMAIN st.prohibited_colors |->
                                       IF a \in neighbours THEN st.prohibited_colors[a] \cup {color}
                                       ELSE st.prohibited_colors[a]]]
    IN assign(Len(st.color_sets), adjacency(v, edges))

\* the body of "for v in vertices"; st = [color_sets, prohibited_colors]
color_vertex(v, edges, st) ==
    LET lowest(n, prohibited) == CHOOSE c \in 0..n : c \notin prohibited /\ \A d \in 0..n : d \notin prohibited => c <= d
        assign(color, neighbours) ==
            [color_sets |-> [(IF color = Len(st.color_sets) THEN Append(st.color_sets, {}) ELSE st.color_sets)
                               EXCEPT ![color + 1] = @ \cup {v}],
             prohibited_colors |-> [a \in DOMAIN st.prohibited_colors |->
                                       IF a \in neighbours THEN st.prohibited_colors[a] \cup {color}
                                       ELSE st.prohibited_colors[a]]]
    IN assign(lowest(Len(st.color_sets), st.prohibited_colors[v]), adjacency(v, edges))

RECURSIVE color_vertices(_, _, _)
color_vertices(vertices, edges, st) ==
    IF vertices = <<>> THEN st
    ELSE color_vertices(Tail(vertices), edges, color_vertex(Head(vertices), edges, st))

\* "there must be no edges that refer to vertices that aren't present": adjacency[x] raises
\* KeyError for such an edge and no list is returned, which is the empty list here
color_graph(vertices, edges) ==
    LET color(present) ==
            IF \E e \in edges : e[1] \notin present \/ e[2] \notin present THEN <<>>
            ELSE color_vertices(vertices, edges,
                                [color_sets |-> <<>>, prohibited_colors |-> [v \in present |-> {}]]).color_sets
    IN color(SeqToSet(vertices))

(***************************************************************************)
(* color_locals (reg.py lines 780-820).  Locals are named by their names.  *)
(* itertools.combinations yields every unordered pair of a live set once,  *)
(* in the iteration order of the set; color_graph enters each edge in both *)
(* directions, so both orientations are kept here.                         *)
(***************************************************************************)
combinations(live) == UNION { { << a, b >> : b \in live \ {a} } : a \in live }

RECURSIVE live_vars(_), live_overlaps(_), body_index_error(_)

\* the set vars after visit_stmts(liveness)
live_vars(liveness) ==
    IF liveness = <<>> THEN {}
    ELSE LET stmt == Head(liveness)
             nested == IF stmt.statement.k = "If"
                       THEN live_vars(stmt.statement.when_true) \cup live_vars(stmt.statement.when_false)
                       ELSE IF stmt.statement.k = "While"
                       THEN live_vars(stmt.statement.test) \cup live_vars(stmt.statement.body) \cup
                            (IF stmt.statement.value.k = "Local" /\ stmt.statement.body # <<>>
                             THEN {stmt.statement.value.name} \cup stmt.statement.body[1].before ELSE {})
                       ELSE {}
         IN stmt.before \cup nested \cup live_vars(Tail(liveness))

\* overlaps when visit_stmts does not descend into If and While
live_overlaps_outermost(liveness) ==
    IF liveness = <<>> THEN {}
    ELSE combinations(Head(liveness).before) \cup live_overlaps(Tail(liveness))

\* the set overlaps after visit_stmts(liveness)
live_overlaps(liveness) ==
    IF liveness = <<>> THEN {}
    ELSE LET stmt == Head(liveness)
             nested == IF stmt.statement.k = "If"
                       THEN live_overlaps(stmt.statement.when_true) \cup live_overlaps(stmt.statement.when_false)
                       ELSE IF stmt.statement.k = "While"
                       THEN live_overlaps(stmt.statement.test) \cup live_overlaps(stmt.statement.body) \cup
                            (IF stmt.statement.value.k = "Local" /\ stmt.statement.body # <<>>
                             THEN { << stmt.statement.value.name, b >> : b \in stmt.statement.body[1].before }
                                  \cup combinations(stmt.statement.body[1].before)
                             ELSE {})
                       ELSE {}
         IN combinations(stmt.before) \cup nested \cup live_overlaps(Tail(liveness))

\* stmt.statement.body[0] (line 807) raises IndexError: a While testing a Local has an empty body
body_index_error(liveness) ==
    IF liveness = <<>> THEN FALSE
    ELSE LET stmt == Head(liveness)
             here == IF stmt.statement.k = "If"
                     THEN body_index_error(stmt.statement.when_true) \/ body_index_error(stmt.statement.when_false)
                     ELSE IF stmt.statement.k = "While"
                     THEN \/ body_index_error(stmt.statement.test)
                          \/ body_index_error(stmt.statement.body)
                          \/ (stmt.statement.value.k = "Local" /\ stmt.statement.body = <<>>)
                     ELSE FALSE
         IN here \/ body_index_error(Tail(liveness))

\* vars_order is the order in which the set vars is iterated
color_locals(liveness, vars_order) == color_graph(vars_order, live_overlaps(liveness))

(***************************************************************************)
(* lock_down_locals (reg.py lines 823-892).  map is a function from the    *)
(* names of Locals to Regs; map[value] raises KeyError outside its domain. *)
(***************************************************************************)
\* a lock-down that binds a Local to the register after the one of its colour
lock_rewrite_value_off_by_one(value, map) ==
    IF value.k = "Local" THEN Reg(map[value.name].index + 1, map[value.name].name) ELSE value

lock_rewrite_value(value, map) == IF value.k = "Local" THEN map[value.name] ELSE value

lock_rewrite_expr(expr, map) ==
    IF expr.k \in {"CallSub", "Const", "Location"} THEN expr
    ELSE IF expr.k = "Local" THEN map[expr.name]
    ELSE IF expr.k = "Binary" THEN Binary(lock_rewrite_value(expr.left, map), expr.op, lock_rewrite_value(expr.right, map))
    ELSE IF expr.k = "Unary" THEN Unary(expr.op, lock_rewrite_value(expr.value, map))
    ELSE IF expr.k = "IndirectRead" THEN IndirectRead(lock_rewrite_value(expr.address, map))
    ELSE expr

RECURSIVE lock_rewrite_statement(_, _), lock_down_locals(_, _)

lock_rewrite_statement(stmt, map) ==
    IF stmt.k = "Eval" THEN Eval(lock_rewrite_value(stmt.dest, map), lock_rewrite_expr(stmt.expr, map))
    ELSE IF stmt.k = "IndirectWrite" THEN IndirectWrite(lock_rewrite_value(stmt.address, map), lock_rewrite_value(stmt.value, map))
    ELSE IF stmt.k = "Store" THEN Store(stmt.location, lock_rewrite_value(stmt.value, map))
    ELSE IF stmt.k = "If"
    THEN If(lock_rewrite_value(stmt.value, map), stmt.cmp, lock_down_locals(stmt.when_true, map),
            stmt.has_when_false, lock_down_locals(stmt.when_false, map))
    ELSE IF stmt.k = "While"
    THEN While(lock_down_locals(stmt.test, map), lock_rewrite_value(stmt.value, map), stmt.cmp, lock_down_locals(stmt.body, map))
    ELSE IF stmt.k = "Return" THEN Return(lock_rewrite_expr(stmt.expr, map))
    ELSE IF stmt.k = "Push" THEN Push(lock_rewrite_expr(stmt.expr, map))
    ELSE stmt

lock_down_locals(stmts, map) == [i \in 1..Len(stmts) |-> lock_rewrite_statement(stmts[i], map)]

\* the names of the Locals that lock_down_locals looks up in map
RECURSIVE looked_up(_)
looked_up(stmts) ==
    IF stmts = <<>> THEN {}
    ELSE LET stmt == Head(stmts)
             here == IF stmt.k = "Eval" THEN refs(stmt.dest) \cup refs(stmt.expr)
                     ELSE IF stmt.k = "IndirectWrite" THEN refs(stmt.address) \cup refs(stmt.value)
                     ELSE IF stmt.k = "Store" THEN refs(stmt.value)
                     ELSE IF stmt.k = "If" THEN refs(stmt.value) \cup looked_up(stmt.when_true) \cup looked_up(stmt.when_false)
                     ELSE IF stmt.k = "While" THEN looked_up(stmt.test) \cup refs(stmt.value) \cup looked_up(stmt.body)
                     ELSE IF stmt.k \in {"Return", "Push"} THEN refs(stmt.expr)
                     ELSE {}
         IN here \cup looked_up(Tail(stmts))

(***************************************************************************)
(* The Jack AST handed to the flattener (module nand.jack_ast).  None for  *)
(* a name is the empty string; an optional expression is a flag and the    *)
(* expression.                                                             *)
(***************************************************************************)
NoName == ""
NoExpr == [k |-> "None"]
IntegerConstant(value) == [k |-> "IntegerConstant", value |-> value]
StringConstant(value) == [k |-> "StringConstant", value |-> value]    \* value: the list of ord(c)
KeywordConstant(value) == [k |-> "KeywordConstant", value |-> value]  \* "true", "false", "null", "this"
VarRef(name) == [k |-> "VarRef", name |-> name]
ArrayRef(name, array_index) == [k |-> "ArrayRef", name |-> name, array_index |-> array_index]
SubroutineCall(class_name, var_name, sub_name, args) == [k |-> "SubroutineCall", class_name |-> class_name, var_name |-> var_name, sub_name |-> sub_name, args |-> args]
BinaryExpression(left, op, right) == [k |-> "BinaryExpression", left |-> left, op |-> op, right |-> right]
UnaryExpression(op, expr) == [k |-> "UnaryExpression", op |-> op, expr |-> expr]
LetStatement(name, has_array_index, array_index, expr) == [k |-> "LetStatement", name |-> name, has_array_index |-> has_array_index, array_index |-> array_index, expr |-> expr]
IfStatement(cond, when_true, has_when_false, when_false) == [k |-> "IfStatement", cond |-> cond, when_true |-> when_true, has_when_false |-> has_when_false, when_false |-> when_false]
WhileStatement(cond, body) == [k |-> "WhileStatement", cond |-> cond, body |-> body]
DoStatement(expr) == [k |-> "DoStatement", expr |-> expr]
ReturnStatement(has_expr, expr) == [k |-> "ReturnStatement", has_expr |-> has_expr, expr |-> expr]
SubroutineDec(kind, statements) == [kind |-> kind, statements |-> statements]

(***************************************************************************)
(* The symbol table the flattener consults (solved_11.SymbolTable): two    *)
(* int locals, an object local, a static, an argument and three fields of  *)
(* a class Main, and the int locals a1, a2, ... of the large subroutines.   *)
(***************************************************************************)
\* the i-th of the many locals
local_name(i) == "a" \o ToString(i)

symbol_table ==
    [n \in { local_name(i) : i \in 1..ManyLocals } |->
        [kind |-> "local", index |-> 2 + (CHOOSE i \in 1..ManyLocals : n = local_name(i)), type |-> "int"]] @@
    [x |-> [kind |-> "local", index |-> 0, type |-> "int"],
     y |-> [kind |-> "local", index |-> 1, type |-> "int"],
     o |-> [kind |-> "local", index |-> 2, type |-> "Obj"],
     s |-> [kind |-> "static", index |-> 0, type |-> "int"],
     a |-> [kind |-> "argument", index |-> 1, type |-> "int"],
     f |-> [kind |-> "this", index |-> 0, type |-> "int"],
     g |-> [kind |-> "this", index |-> 1, type |-> "int"],
     q_x |-> [kind |-> "this", index |-> 2, type |-> "int"]]
kind_of(name) == symbol_table[name].kind
index_of(name) == symbol_table[name].index
type_of(name) == symbol_table[name].type
count(kind) == Cardinality({ n \in DOMAIN symbol_table : symbol_table[n].kind = kind })
class_name == "Main"

(***************************************************************************)
(* flatten_subroutine (reg.py lines 177-449).  The counter extra_var_count *)
(* is threaded through as n; this_expr is the closure variable.            *)
(***************************************************************************)
flatten_next_var(name, n) == Local("$" \o name \o ToString(n))

resolve_name(name) == IF kind_of(name) = "local" THEN Local(name) ELSE Location(kind_of(name), index_of(name), name)

\* expr == jack_ast.IntegerConstant(0)
IsIntegerConstant0(expr) == expr.k = "IntegerConstant" /\ expr.value = 0

negate_cmp(cmp) ==
    CASE cmp = "<" -> ">=" [] cmp = ">" -> "<=" [] cmp = "=" -> "!="
      [] cmp = "<=" -> ">" [] cmp = ">=" -> "<" [] cmp = "!=" -> "="

\* address of a field of this (lines 218-229 and 338-349); returns [this_stmts, addr_stmts, addr_var, n]
field_address(loc, this_expr, n) ==
    LET this_is_local == this_expr.k = "Local"
        this_var == IF this_is_local THEN this_expr ELSE flatten_next_var("this", n)
        this_stmts == IF this_is_local THEN <<>> ELSE << Eval(this_var, Location("argument", 0, "self")) >>
        n1 == IF this_is_local THEN n ELSE n + 1
        addr_var == IF loc.index = 0 THEN this_var ELSE flatten_next_var(loc.name, n1)
        addr_stmts == IF loc.index = 0 THEN <<>> ELSE << Eval(addr_var, Binary(this_var, "+", Const(loc.index))) >>
    IN [this_stmts |-> this_stmts, addr_stmts |-> addr_stmts, addr_var |-> addr_var,
        n |-> IF loc.index = 0 THEN n1 ELSE n1 + 1]

\* lines 423-428
flatten_force(force, stmts, flat_expr, n) ==
    IF force
    THEN [stmts |-> stmts \o << Eval(flatten_next_var("", n), flat_expr) >>, expr |-> flatten_next_var("", n), n |-> n + 1]
    ELSE [stmts |-> stmts, expr |-> flat_expr, n |-> n]

\* the statements of a string constant, lines 360-369
RECURSIVE append_chars(_)
append_chars(chars) ==
    IF chars = <<>> THEN <<>>
    ELSE << Push(Const(Head(chars))), Push(CallSub("String", "appendChar", 2)) >> \o append_chars(Tail(chars))

RECURSIVE flatten_expression(_, _, _, _), flatten_args(_, _, _)

\* a flattener that does not push the last argument of a call
flatten_args_drops_last(args, this_expr, n) ==
    IF args = <<>> THEN [stmts |-> <<>>, n |-> n]
    ELSE LET pairs(h, t) ==
                 [stmts |-> h.stmts \o (IF Tail(args) = <<>> THEN <<>> ELSE << Push(h.expr) >>) \o t.stmts, n |-> t.n]
             pair(h) == pairs(h, flatten_args(Tail(args), this_expr, h.n))
         IN pair(flatten_expression(Head(args), FALSE, this_expr, n))

\* pairs and arg_stmts, lines 384-385; returns [stmts, n]
flatten_args(args, this_expr, n) ==
    IF args = <<>> THEN [stmts |-> <<>>, n |-> n]
    ELSE LET pairs(h, t) == [stmts |-> h.stmts \o << Push(h.expr) >> \o t.stmts, n |-> t.n]
             pair(h) == pairs(h, flatten_args(Tail(args), this_expr, h.n))
         IN pair(flatten_expression(Head(args), FALSE, this_expr, n))

\* the address of a[i]: "a" itself when i is the constant 0 (lines 238-242 and 374-378)
array_address(name, array_index) ==
    IF IsIntegerConstant0(array_index) THEN VarRef(name)
    ELSE BinaryExpression(VarRef(name), "+", array_index)

\* returns [stmts, expr, n]
flatten_expression(expr, force, this_expr, n) ==
    IF expr.k = "IntegerConstant" THEN [stmts |-> <<>>, expr |-> Const(expr.value), n |-> n]
    ELSE IF expr.k = "KeywordConstant"
    THEN IF expr.value = "true" THEN [stmts |-> <<>>, expr |-> Const(-1), n |-> n]
         ELSE IF expr.value \in {"false", "null"} THEN [stmts |-> <<>>, expr |-> Const(0), n |-> n]
         ELSE flatten_force(force, <<>>, this_expr, n)
    ELSE IF expr.k = "VarRef"
    THEN LET field(fa) == flatten_force(force, fa.this_stmts \o fa.addr_stmts, IndirectRead(fa.addr_var), fa.n)
             var(loc) ==
                 IF loc.k = "Local" THEN [stmts |-> <<>>, expr |-> loc, n |-> n]
                 ELSE IF loc.kind = "this" THEN field(field_address(loc, this_expr, n))
                 ELSE flatten_force(force, <<>>, loc, n)
         IN var(resolve_name(expr.name))
    ELSE IF expr.k = "StringConstant"
    THEN LET string(stmts) == flatten_force(force, SubSeq(stmts, 1, Len(stmts) - 1), stmts[Len(stmts)].expr, n)
         IN string(<< Push(Const(Len(expr.value))), Push(CallSub("String", "new", 1)) >> \o append_chars(expr.value))
    ELSE IF expr.k = "ArrayRef"
    THEN LET element(ad) == flatten_force(force, ad.stmts, IndirectRead(ad.expr), ad.n)
         IN element(flatten_expression(array_address(expr.name, expr.array_index), TRUE, this_expr, n))
    ELSE IF expr.k = "SubroutineCall"
    THEN LET on_instance(args, inst) ==
                 flatten_force(force, inst.stmts \o << Push(inst.expr) >> \o args.stmts,
                               CallSub(type_of(expr.var_name), expr.sub_name, Len(expr.args) + 1), inst.n)
             call_sub(args) ==
                 IF expr.class_name # NoName
                 THEN flatten_force(force, args.stmts, CallSub(expr.class_name, expr.sub_name, Len(expr.args)), args.n)
                 ELSE IF expr.var_name # NoName
                 THEN on_instance(args, flatten_expression(VarRef(expr.var_name), FALSE, this_expr, args.n))
                 ELSE flatten_force(force, << Push(this_expr) >> \o args.stmts,
                                    CallSub(class_name, expr.sub_name, Len(expr.args) + 1), args.n)
         IN call_sub(flatten_args(expr.args, this_expr, n))
    ELSE IF expr.k = "BinaryExpression"
    THEN IF expr.op = "*"
         THEN flatten_expression(SubroutineCall("Math", NoName, "multiply", << expr.left, expr.right >>), force, this_expr, n)
         ELSE IF expr.op = "/"
         THEN flatten_expression(SubroutineCall("Math", NoName, "divide", << expr.left, expr.right >>), force, this_expr, n)
         ELSE LET binary(l, r) == flatten_force(force, l.stmts \o r.stmts, Binary(l.expr, expr.op, r.expr), r.n)
                  right(l) == binary(l, flatten_expression(expr.right, TRUE, this_expr, l.n))
              IN right(flatten_expression(expr.left, TRUE, this_expr, n))
    ELSE \* UnaryExpression
         LET unary(c) ==
                 IF c.expr.k = "Const" /\ expr.op = "-"
                 THEN flatten_force(force, c.stmts, Const(-c.expr.value), c.n)
                 ELSE flatten_force(force, c.stmts, Unary(expr.op, c.expr), c.n)
         IN unary(flatten_expression(expr.expr, TRUE, this_expr, n))

IsComparison(expr) == expr.k = "BinaryExpression" /\ expr.op \in {"<", ">", "=", "<=", ">=", "!="}

\* "Collapse simple negated conditions", lines 279-285
collapse_negated(expr) ==
    IF expr.k = "UnaryExpression" /\ expr.op = "~" /\ expr.expr.k = "BinaryExpression" /\ expr.expr.op \in {"<", ">", "="}
    THEN BinaryExpression(expr.expr.left,
                          CASE expr.expr.op = "<" -> ">=" [] expr.expr.op = ">" -> "<=" [] expr.expr.op = "=" -> "!=",
                          expr.expr.right)
    ELSE expr

\* returns [stmts, value, cmp, n]
flatten_condition(expr0, this_expr, n) ==
    LET against_zero(cmp, e) == [stmts |-> e.stmts, value |-> e.expr, cmp |-> cmp, n |-> e.n]
        difference(cmp, l, r) ==
            [stmts |-> l.stmts \o r.stmts \o << Eval(flatten_next_var("", r.n), Binary(l.expr, "-", r.expr)) >>,
             value |-> flatten_next_var("", r.n), cmp |-> cmp, n |-> r.n + 1]
        right(expr, l) == difference(expr.op, l, flatten_expression(expr.right, TRUE, this_expr, l.n))
        condition(expr) ==
            IF IsComparison(expr)
            THEN IF IsIntegerConstant0(expr.right)
                 THEN against_zero(expr.op, flatten_expression(expr.left, TRUE, this_expr, n))
                 ELSE IF IsIntegerConstant0(expr.left)
                 THEN against_zero(negate_cmp(expr.op), flatten_expression(expr.right, TRUE, this_expr, n))
                 ELSE right(expr, flatten_expression(expr.left, TRUE, this_expr, n))
            ELSE against_zero("!=", flatten_expression(expr, TRUE, this_expr, n))
    IN condition(collapse_negated(expr0))

RECURSIVE flatten_statement(_, _, _), flatten_statements(_, _, _)

\* both return [stmts, n]
flatten_statement(stmt, this_expr, n) ==
    IF stmt.k = "LetStatement"
    THEN IF ~stmt.has_array_index
         THEN LET eval(loc, e) == [stmts |-> e.stmts \o << Eval(loc, e.expr) >>, n |-> e.n]
                  store(loc, e) == [stmts |-> e.stmts \o << Store(loc, e.expr) >>, n |-> e.n]
                  write(fa, v) ==
                      [stmts |-> v.stmts \o fa.this_stmts \o fa.addr_stmts \o << IndirectWrite(fa.addr_var, v.expr) >>,
                       n |-> v.n]
                  field(fa) == write(fa, flatten_expression(stmt.expr, TRUE, this_expr, fa.n))
                  assign(loc) ==
                      IF loc.k = "Local" THEN eval(loc, flatten_expression(stmt.expr, FALSE, this_expr, n))
                      ELSE IF loc.kind = "this" THEN field(field_address(loc, this_expr, n))
                      ELSE store(loc, flatten_expression(stmt.expr, TRUE, this_expr, n))
              IN assign(resolve_name(stmt.name))
         ELSE LET write(v, ad) == [stmts |-> v.stmts \o ad.stmts \o << IndirectWrite(ad.expr, v.expr) >>, n |-> ad.n]
                  element(v) ==
                      write(v, flatten_expression(array_address(stmt.name, stmt.array_index), TRUE, this_expr, v.n))
              IN element(flatten_expression(stmt.expr, TRUE, this_expr, n))
    ELSE IF stmt.k = "IfStatement"
    THEN LET branch(c, t, f) ==
                 [stmts |-> c.stmts \o << If(c.value, c.cmp, t.stmts, stmt.has_when_false, f.stmts) >>, n |-> f.n]
             when_false(c, t) ==
                 branch(c, t, IF stmt.has_when_false THEN flatten_statements(stmt.when_false, this_expr, t.n)
                              ELSE [stmts |-> <<>>, n |-> t.n])
             when_true(c) == when_false(c, flatten_statements(stmt.when_true, this_expr, c.n))
         IN when_true(flatten_condition(stmt.cond, this_expr, n))
    ELSE IF stmt.k = "WhileStatement"
    THEN LET loop(c, b) == [stmts |-> << While(c.stmts, c.value, c.cmp, b.stmts) >>, n |-> b.n]
             loop_body(c) == loop(c, flatten_statements(stmt.body, this_expr, c.n))
         IN loop_body(flatten_condition(stmt.cond, this_expr, n))
    ELSE IF stmt.k = "DoStatement"
    THEN LET discard(e) == [stmts |-> e.stmts \o << Discard(e.expr) >>, n |-> e.n]
         IN discard(flatten_expression(stmt.expr, FALSE, this_expr, n))
    ELSE \* ReturnStatement
         IF stmt.has_expr
         THEN LET return(e) == [stmts |-> e.stmts \o << Return(e.expr) >>, n |-> e.n]
              IN return(flatten_expression(stmt.expr, FALSE, this_expr, n))
         ELSE [stmts |-> << Return(Const(0)) >>, n |-> n]

flatten_statements(stmts, this_expr, n) ==
    IF stmts = <<>> THEN [stmts |-> <<>>, n |-> n]
    ELSE LET concat(h, t) == [stmts |-> h.stmts \o t.stmts, n |-> t.n]
             rest(h) == concat(h, flatten_statements(Tail(stmts), this_expr, h.n))
         IN rest(flatten_statement(Head(stmts), this_expr, n))

\* the body of the Subroutine that flatten_subroutine returns
flatten_subroutine(ast) ==
    LET this_expr == IF ast.kind = "method" THEN Location("argument", 0, "this")
                     ELSE IF ast.kind = "constructor" THEN flatten_next_var("this", 0)
                     ELSE [k |-> "Unbound"]
        n0 == IF ast.kind = "constructor" THEN 1 ELSE 0
        preamble_stmts == IF ast.kind = "constructor"
                          THEN << Push(Const(count("this"))), Eval(this_expr, CallSub("Memory", "alloc", 1)) >>
                          ELSE <<>>
    IN preamble_stmts \o flatten_statements(ast.statements, this_expr, n0).stmts

(***************************************************************************)
(* phase_two (reg.py lines 895-954) as pure steps.  Every iteration of a   *)
(* Python set is given its order as an argument.                           *)
(***************************************************************************)
\* a next_location that numbers the Locals of every pass from 0
next_location_from_zero(promoted_count, order, name) == Location("local", IndexOf(order, name) - 1, name)

\* next_location for the i-th Local of an iteration, promoted_count being the count before it
next_location(promoted_count, order, name) == Location("local", promoted_count + IndexOf(order, name) - 1, name)

\* lines 912-920; slot_order is the iteration order of need_promotion
first_promotion(flat_body, slot_order) ==
    LET promote(need_promotion, prefix) ==
            [pc |-> "allocating", raised |-> "",
             body |-> promote_locals(flat_body, [name \in need_promotion |-> next_location(0, slot_order, name)], prefix),
             promoted_count |-> Cardinality(need_promotion), prefixes |-> << prefix >>]
    IN IF ~fixed_point_reached(flat_body, {})
       THEN [pc |-> "raised", raised |-> "AssertionError", body |-> flat_body, promoted_count |-> 0, prefixes |-> <<>>]
       ELSE promote(need_saving(analyze_liveness(flat_body, {})), "p_")

\* an unallocatable that leaves the first set after the registers where it is
unallocatable_but_one(local_sets, regs) == UNION { local_sets[i] : i \in { j \in 1..Len(local_sets) : j > regs + 1 } }

\* the Locals of local_sets[reg_count:]
unallocatable(local_sets, regs) == UNION { local_sets[i] : i \in { j \in 1..Len(local_sets) : j > regs } }

color_index(local_sets, name) == CHOOSE c \in 1..Len(local_sets) : name \in local_sets[c]

\* the orders of "for s in sets for l in s": the sets in their order, each set in an order of its own
RECURSIVE nested_orders(_)
nested_orders(sets) ==
    IF sets = <<>> THEN { <<>> }
    ELSE { first \o rest : first \in Orderings(Head(sets)), rest \in nested_orders(Tail(sets)) }

\* the orders of "for s in unallocatable_sets for l in s"
slot_orders(local_sets, regs) ==
    IF Len(local_sets) > regs THEN nested_orders(SubSeq(local_sets, regs + 1, Len(local_sets))) ELSE { <<>> }

\* one iteration of "while True", lines 923-954
alloc_round(body0, promoted_count0, regs, vars_order, slot_order) ==
    LET raise(exception) ==
            [pc |-> "raised", raised |-> exception, body |-> body0, promoted_count |-> promoted_count0, prefixes |-> <<>>]
        fall_back(spilled, prefix) ==
            [pc |-> "allocating", raised |-> "",
             body |-> promote_locals(body0, [l \in spilled |-> next_location(promoted_count0, slot_order, l)], prefix),
             promoted_count |-> promoted_count0 + Cardinality(spilled), prefixes |-> << prefix >>]
        lock_down(reg_map) ==
            IF ~(looked_up(body0) \subseteq DOMAIN reg_map) THEN raise("KeyError")
            ELSE [pc |-> "returned", raised |-> "", body |-> lock_down_locals(body0, reg_map),
                  promoted_count |-> promoted_count0, prefixes |-> <<>>]
        allocate(local_sets) ==
            IF Len(local_sets) > regs THEN fall_back(unallocatable(local_sets, regs), "q_")
            ELSE lock_down([l \in SeqToSet(vars_order) |-> Reg(color_index(local_sets, l) - 1, l)])
        round(liveness2) ==
            IF need_saving(liveness2) # {} THEN raise("More than one round of promotion needed")
            ELSE IF body_index_error(liveness2) THEN raise("IndexError")
            ELSE allocate(color_locals(liveness2, vars_order))
    IN IF ~fixed_point_reached(body0, {}) THEN raise("AssertionError")
       ELSE round(analyze_liveness(body0, {}))

(***************************************************************************)
(* The subroutines compiled: the body of a Jack function is up to MaxPre   *)
(* leading statements, one main statement and an optional return; the main *)
(* statement is a simple statement or an if/while over up to MaxBody       *)
(* statements.  A few methods and constructors exercise this and fields.   *)
(***************************************************************************)
DefaultRegCount == 8

SeqsUpTo(pool, n) == UNION { [1..m -> pool] : m \in 0..n }

CallF(args) == SubroutineCall("C", NoName, "f", args)
Let(name, expr) == LetStatement(name, FALSE, NoExpr, expr)

BodyPool ==
    { Let("x", IntegerConstant(0)),
      Let("y", VarRef("x")),
      DoStatement(CallF(<<>>)) }

CondPool ==
    { VarRef("x"),
      BinaryExpression(VarRef("x"), "<", VarRef("y")) }

PrePool ==
    { Let("x", IntegerConstant(1)),
      Let("y", CallF(<<>>)),
      Let("o", VarRef("y")) }

PostPool ==
    { <<>>, << ReturnStatement(TRUE, VarRef("x")) >>, << ReturnStatement(TRUE, VarRef("y")) >> }

SimplePool ==
    BodyPool \cup
    { Let("x", BinaryExpression(VarRef("x"), "+", VarRef("y"))),
      Let("x", BinaryExpression(VarRef("y"), "*", VarRef("x"))),
      Let("x", UnaryExpression("-", VarRef("y"))),
      Let("x", UnaryExpression("-", IntegerConstant(2))),
      Let("x", StringConstant(<< 104 >>)),
      Let("x", ArrayRef("y", IntegerConstant(1))),
      Let("x", VarRef("s")),
      Let("s", VarRef("x")),
      Let("a", BinaryExpression(VarRef("x"), "&", VarRef("y"))),
      LetStatement("x", TRUE, IntegerConstant(0), VarRef("y")),
      LetStatement("o", TRUE, VarRef("x"), VarRef("y")),
      DoStatement(CallF(<< VarRef("x"), BinaryExpression(VarRef("y"), "+", CallF(<< IntegerConstant(2) >>)) >>)),
      DoStatement(SubroutineCall(NoName, "o", "m", << VarRef("x") >>)),
      ReturnStatement(FALSE, NoExpr),
      ReturnStatement(TRUE, CallF(<< KeywordConstant("true") >>)) }

CompoundPool ==
    { IfStatement(c, b, FALSE, <<>>) : c \in CondPool, b \in SeqsUpTo(BodyPool, MaxBody) } \cup
    { WhileStatement(c, b) : c \in CondPool, b \in SeqsUpTo(BodyPool, MaxBody) } \cup
    { IfStatement(BinaryExpression(IntegerConstant(0), "<", VarRef("x")), << b >>, TRUE, << Let("x", VarRef("y")) >>) : b \in BodyPool } \cup
    { IfStatement(UnaryExpression("~", BinaryExpression(VarRef("x"), "=", IntegerConstant(0))), <<>>, TRUE, << b >>) : b \in BodyPool } \cup
    { WhileStatement(VarRef("y"), << IfStatement(VarRef("x"), << b >>, FALSE, <<>>) >>) : b \in BodyPool } \cup
    { WhileStatement(VarRef("y"), << WhileStatement(c, << b >>) >>) : c \in CondPool, b \in BodyPool } \cup
    { WhileStatement(VarRef("x"), << Let("y", VarRef("x")), Let("x", VarRef("o")) >>) }

ThisPool ==
    { << Let("f", VarRef("x")) >>,
      << Let("g", VarRef("g")) >>,
      << Let("x", VarRef("f")), ReturnStatement(TRUE, VarRef("x")) >>,
      << DoStatement(SubroutineCall(NoName, NoName, "m", << VarRef("g") >>)) >>,
      << Let("x", BinaryExpression(VarRef("x"), "+", VarRef("x"))), Let("q_x", VarRef(local_name(1))),
         ReturnStatement(TRUE, VarRef(local_name(2))) >>,
      << Let("x", CallF(<<>>)), ReturnStatement(TRUE, KeywordConstant("this")) >> }

JackSubroutines ==
    { SubroutineDec("function", pre \o << main >> \o post) :
        pre \in SeqsUpTo(PrePool, MaxPre), main \in SimplePool \cup CompoundPool, post \in PostPool } \cup
    { SubroutineDec(kind, stmts) : kind \in {"method", "constructor"}, stmts \in ThisPool }

(***************************************************************************)
(* State.                                                                  *)
(***************************************************************************)
VARIABLES
    pc,              \* where the run stands
    jack,            \* the SubroutineDec being compiled
    flat,            \* the body of the Subroutine flatten_subroutine returned (ast.body in phase_two)
    body,            \* phase_two's body; the body of the returned Subroutine once pc = "returned"
    promoted_count,  \* phase_two's promoted_count; num_vars of the returned Subroutine
    reg_count,       \* phase_two's parameter
    rounds,          \* fallback promotions done so far
    raised,          \* the exception that ended the run, if any
    prefixes,        \* the prefix argument of every promote_locals call of the run, in call order
    vertices,        \* color_graph's argument: the vertices in the order given
    edges,           \* color_graph's argument
    color_sets,      \* color_graph's result
    cond,            \* the Jack condition handed to flatten_condition
    word_x,          \* the value of the local x when the lowered condition is tested
    cond_out,        \* flatten_condition's result
    ip,              \* the machine's PC
    reg_a,           \* the machine's A register
    reg_d,           \* the machine's D register
    reg_sp,          \* the machine's SP register, read and written as location 0
    ram,             \* the machine's RAM from location 1 up
    call,            \* the call followed: nargs, num_vars, the _pop_d emitted
    before,          \* the machine when the arguments had been pushed, before the call
    callee_steps,    \* steps of the callee's body taken
    program,         \* the assembly listing in the ROM of the computer of run.py
    chip,            \* the chip of project_01 handed to eval
    inputs,          \* the keyword arguments of eval
    outputs,         \* the outputs of the chip that eval returned
    combine_ops,     \* NandVector.combine_ops
    sequence_ops,    \* NandVector.sequence_ops
    traces,          \* NandVector.traces: the set of the bits that are 1
    dirty,           \* NandVector.dirty
    last             \* the last call made on the NandVector and how it ended

compile_vars == << jack, flat, body, promoted_count, reg_count, rounds, raised, prefixes >>
graph_vars == << vertices, edges, color_sets >>
cond_vars == << cond, word_x, cond_out >>
machine_vars == << ip, reg_a, reg_d, reg_sp, ram, call, before, callee_steps, program >>
vector_vars == << combine_ops, sequence_ops, traces, dirty, last >>
chip_vars == << chip, inputs, outputs, vector_vars >>
vars == << pc, compile_vars, graph_vars, cond_vars, machine_vars, chip_vars >>

CompileIdle ==
    /\ jack = NoExpr /\ flat = <<>> /\ body = <<>>
    /\ promoted_count = 0 /\ reg_count = DefaultRegCount /\ rounds = 0 /\ raised = "" /\ prefixes = <<>>
GraphIdle == vertices = <<>> /\ edges = {} /\ color_sets = <<>>
CondIdle == cond = NoExpr /\ word_x = 0 /\ cond_out = NoExpr
VectorIdle == combine_ops = <<>> /\ sequence_ops = <<>> /\ traces = {} /\ dirty = FALSE /\ last = NoExpr
ChipIdle == chip = "" /\ inputs = NoExpr /\ outputs = NoExpr /\ VectorIdle

MachineIdle ==
    /\ ip = 0 /\ reg_a = 0 /\ reg_d = 0 /\ reg_sp = 0 /\ ram = <<>>
    /\ call = NoExpr /\ before = NoExpr /\ callee_steps = 0 /\ program = <<>>

(***************************************************************************)
(* The compiler as a state machine: compile_class runs flatten_subroutine  *)
(* and then phase_two, whose loop is followed one iteration at a time.     *)
(***************************************************************************)
Init ==
    /\ pc = "parsed"
    /\ jack \in JackSubroutines
    /\ reg_count \in {SmallRegCount, DefaultRegCount}
    /\ flat = <<>> /\ body = <<>>
    /\ promoted_count = 0 /\ rounds = 0 /\ raised = "" /\ prefixes = <<>>
    /\ GraphIdle /\ CondIdle /\ MachineIdle /\ ChipIdle

\* flatten_class: flatten_subroutine(s, symbol_table)
Flatten ==
    /\ pc = "parsed"
    /\ flat' = flatten_subroutine(jack)
    /\ body' = flat'
    /\ pc' = "flat"
    /\ UNCHANGED << jack, promoted_count, reg_count, rounds, raised, prefixes, graph_vars, cond_vars, machine_vars, chip_vars >>

\* phase_two up to the loop
FirstPromotion ==
    /\ pc = "flat"
    /\ \E slot_order \in Orderings(need_saving(analyze_liveness(flat, {}))) :
         LET r == first_promotion(flat, slot_order)
         IN /\ pc' = r.pc
            /\ raised' = r.raised
            /\ body' = r.body
            /\ promoted_count' = r.promoted_count
            /\ prefixes' = prefixes \o r.prefixes
    /\ UNCHANGED << jack, flat, reg_count, rounds, graph_vars, cond_vars, machine_vars, chip_vars >>

\* one iteration of phase_two's loop
AllocRound ==
    /\ pc = "allocating"
    /\ \E vars_order \in Orderings(live_vars(analyze_liveness(body, {}))) :
         \E slot_order \in slot_orders(color_locals(analyze_liveness(body, {}), vars_order), reg_count) :
           LET r == alloc_round(body, promoted_count, reg_count, vars_order, slot_order)
           IN /\ r.pc = "allocating" => rounds < MaxRounds
              /\ pc' = r.pc
              /\ raised' = r.raised
              /\ body' = r.body
              /\ promoted_count' = r.promoted_count
              /\ rounds' = IF r.pc = "allocating" THEN rounds + 1 ELSE rounds
              /\ prefixes' = prefixes \o r.prefixes
    /\ UNCHANGED << jack, flat, reg_count, graph_vars, cond_vars, machine_vars, chip_vars >>

Next == Flatten \/ FirstPromotion \/ AllocRound

Spec == Init /\ [][Next]_vars

(***************************************************************************)
(* The compiler on call-free subroutines with ManyLocals locals that are   *)
(* all live at one statement: each local is set to 0, one statement reads  *)
(* a1 while the others are still to be read, then a1 is given the other    *)
(* locals one after the other and returned.                                *)
(***************************************************************************)
set_to_zero == [i \in 1..ManyLocals |-> Let(local_name(i), IntegerConstant(0))]

\* let a1 = a<first>; ... let a1 = a<ManyLocals>; return a1;
copies(first) ==
    [i \in 1..(ManyLocals + 1 - first) |-> Let(local_name(1), VarRef(local_name(first + i - 1)))]
    \o << ReturnStatement(TRUE, VarRef(local_name(1))) >>

ManyLocalSubroutines ==
    { SubroutineDec("function", set_to_zero \o middle) :
        middle \in
          { << Let("s", VarRef(local_name(1))) >> \o copies(2),
            << IfStatement(VarRef(local_name(1)), << Let(local_name(1), VarRef(local_name(2))) >>, FALSE, <<>>) >> \o copies(3),
            << WhileStatement(VarRef(local_name(1)), << Let(local_name(1), VarRef(local_name(2))) >>) >> \o copies(2),
            << Let(local_name(1), BinaryExpression(VarRef(local_name(1)), "+", VarRef(local_name(2)))) >> \o copies(3) } }

ManyInit ==
    /\ pc = "parsed"
    /\ jack \in ManyLocalSubroutines
    /\ reg_count = DefaultRegCount
    /\ flat = <<>> /\ body = <<>>
    /\ promoted_count = 0 /\ rounds = 0 /\ raised = "" /\ prefixes = <<>>
    /\ GraphIdle /\ CondIdle /\ MachineIdle /\ ChipIdle

ManySpec == ManyInit /\ [][Next]_vars

(***************************************************************************)
(* color_graph on its own: every order of up to MaxVertices vertices and   *)
(* every set of edges over them, self-loops included, each edge given in   *)
(* either direction.                                                       *)
(***************************************************************************)
GraphInit ==
    /\ pc = "graph"
    /\ \E n \in 0..MaxVertices :
         /\ vertices \in AllOrders(1..n)
         /\ \E upward \in SUBSET { e \in (1..n) \X (1..n) : e[1] <= e[2] } :
              edges \in { upward, { << e[2], e[1] >> : e \in upward } }
    /\ color_sets = <<>>
    /\ CompileIdle /\ CondIdle /\ MachineIdle /\ ChipIdle

ColorGraph ==
    /\ pc = "graph"
    /\ color_sets' = color_graph(vertices, edges)
    /\ pc' = "colored"
    /\ UNCHANGED << vertices, edges, compile_vars, cond_vars, machine_vars, chip_vars >>

GraphNext == ColorGraph

GraphSpec == GraphInit /\ [][GraphNext]_vars

(***************************************************************************)
(* flatten_condition on a comparison with a constant 0 on one side, and    *)
(* the test of the lowered condition on a value of x.                      *)
(***************************************************************************)
\* a table that takes the jump for <= when the value is not below 0, and for >= when it is not above
compare_op_neg_inclusive(cmp) ==
    CASE cmp = "=" -> "NE" [] cmp = "<" -> "GE" [] cmp = ">" -> "LE"
      [] cmp = "!=" -> "EQ" [] cmp = "<=" -> "GE" [] cmp = ">=" -> "LE"

compare_op_neg(cmp) ==
    CASE cmp = "=" -> "NE" [] cmp = "<" -> "GE" [] cmp = ">" -> "LE"
      [] cmp = "!=" -> "EQ" [] cmp = "<=" -> "GT" [] cmp = ">=" -> "LT"

\* the jump bits jlt, jeq, jgt of a mnemonic against the ALU's ng and zr
jump_taken(jump, out) ==
    \/ jump \in {"LT", "LE", "NE", "MP"} /\ out < 0
    \/ jump \in {"EQ", "LE", "GE", "MP"} /\ out = 0
    \/ jump \in {"GT", "GE", "NE", "MP"} /\ out > 0

\* handle_If and handle_While run the guarded statements when "D;J<compare_op_neg(cmp)>" does not jump
Holds(cmp, v) == ~jump_taken(compare_op_neg(cmp), v)

CondInit ==
    /\ pc = "condition"
    /\ \E op \in {"<", ">", "="} :
         cond \in { BinaryExpression(IntegerConstant(0), op, VarRef("x")),
                    BinaryExpression(VarRef("x"), op, IntegerConstant(0)) }
    /\ word_x \in -MaxWord..MaxWord
    /\ cond_out = NoExpr
    /\ CompileIdle /\ GraphIdle /\ MachineIdle /\ ChipIdle

FlattenCondition ==
    /\ pc = "condition"
    /\ cond_out' = flatten_condition(cond, [k |-> "Unbound"], 0)
    /\ pc' = "lowered"
    /\ UNCHANGED << cond, word_x, compile_vars, graph_vars, machine_vars, chip_vars >>

CondNext == FlattenCondition

CondSpec == CondInit /\ [][CondNext]_vars

(***************************************************************************)
(* The branch of handle_If and handle_While: with the tested value in D,   *)
(* "@<label>" and "D;J<compare_op_neg(cmp)>".  D is a 16-bit word; the     *)
(* jump bits are tested against the sign bit and the zero flag of the      *)
(* ALU's output.                                                           *)
(***************************************************************************)
\* the value a 16-bit word stands for in two's complement
signed(word) == IF word >= 32768 THEN word - 65536 ELSE word

\* the 16-bit word of a value
unsigned(value) == value % 65536

\* the label the conditional jump is given: end_label, false_label or loop_end
jump_label(ast) ==
    IF ast.k = "While" THEN "loop_end"
    ELSE IF ast.has_when_false THEN "false"
    ELSE "end"

\* what follows the conditional jump in the instruction stream
after_jump(ast) == IF ast.k = "While" THEN "body" ELSE "when_true"

\* where control is once "D;J<neg>" has run with the word d in D
branch(ast, d) ==
    IF jump_taken(compare_op_neg(ast.cmp), signed(d)) THEN jump_label(ast) ELSE after_jump(ast)

Cmps == {"=", "!=", "<", ">", "<=", ">="}

\* the words tried: around zero from both sides, and the two ends of the signed range
Words == { unsigned(v) : v \in -MaxWord..MaxWord } \cup {32767, 32768}

BranchInit ==
    /\ pc = "tested"
    /\ \E cmp \in Cmps :
         cond \in { If(Reg(0, "x"), cmp, << Return(Const(1)) >>, FALSE, <<>>),
                    If(Reg(0, "x"), cmp, << Return(Const(1)) >>, TRUE, << Return(Const(2)) >>),
                    While(<<>>, Reg(0, "x"), cmp, << Discard(CallSub("C", "f", 0)) >>) }
    /\ reg_d \in Words
    /\ word_x = 0 /\ cond_out = NoExpr
    /\ ip = 0 /\ reg_a = 0 /\ reg_sp = 0 /\ ram = <<>>
    /\ call = NoExpr /\ before = NoExpr /\ callee_steps = 0 /\ program = <<>>
    /\ CompileIdle /\ GraphIdle /\ ChipIdle

\* "@<label>" and "D;J<neg>"
ConditionalJump ==
    /\ pc = "tested"
    /\ pc' = branch(cond, reg_d)
    /\ UNCHANGED << cond, word_x, cond_out, compile_vars, graph_vars, machine_vars, chip_vars >>

BranchNext == ConditionalJump

BranchSpec == BranchInit /\ [][BranchNext]_vars

(***************************************************************************)
(* The call and return sequences, run on the machine of sp.py: Hack plus   *)
(* "SP++=<expr>" and "[AD]=--SP", with SP a register that reads and writes *)
(* of location 0 reach.                                                    *)
(***************************************************************************)
symbols ==
    [SP |-> 0, LCL |-> 1, ARG |-> 2, THIS |-> 3, THAT |-> 4,
     R12 |-> 12, R13 |-> 13, R14 |-> 14, R15 |-> 15]

RESULT == "R12"

At(symbol) == [op |-> "@", value |-> symbols[symbol]]
Compute(dest, comp, jump) == [op |-> "C", dest |-> dest, comp |-> comp, jump |-> jump]
PushFrom(comp) == [op |-> "SP++", dest |-> {}, comp |-> comp, jump |-> ""]
PopTo(dest) == [op |-> "--SP", dest |-> dest, comp |-> "M", jump |-> ""]

\* _pop_d of sp.py
sp_pop_d == << PopTo({"D"}) >>

\* _pop_d of the translator reg.py's Translator extends
solved_07_pop_d == << At("SP"), Compute({"A", "M"}, "M-1", ""), Compute({"D"}, "M", "") >>

pop_d(style) == IF style = "sp" THEN sp_pop_d ELSE solved_07_pop_d

push_pointer(symbol) == << At(symbol), Compute({"A"}, "M", ""), PushFrom("A") >>

call_common ==
    << At("SP"), Compute({"D"}, "M-D", ""), Compute({"D"}, "D-1", "") >>
    \o push_pointer("LCL") \o push_pointer("ARG") \o push_pointer("THIS") \o push_pointer("THAT")
    \o << At("ARG"), Compute({"M"}, "D", ""),
          At("SP"), Compute({"D"}, "M", ""), At("LCL"), Compute({"M"}, "D", ""),
          At("R14"), Compute({"A"}, "M", ""), Compute({}, "0", "MP") >>

restore(pop, symbol) == pop \o << At(symbol), Compute({"M"}, "D", "") >>

\* a return sequence that restores THIS and THAT in the order they were pushed
return_common_this_first(pop) ==
    << At("LCL"), Compute({"D"}, "M", ""), At("SP"), Compute({"M"}, "D", ""),
       At("ARG"), Compute({"D"}, "M", ""), At("R15"), Compute({"M"}, "D", "") >>
    \o restore(pop, "THIS") \o restore(pop, "THAT") \o restore(pop, "ARG") \o restore(pop, "LCL")
    \o restore(pop, "R14")
    \o << At("R15"), Compute({"D"}, "M", ""), At("SP"), Compute({"M"}, "D", ""),
          At("R14"), Compute({"A"}, "M", ""), Compute({}, "0", "MP") >>

return_common(pop) ==
    << At("LCL"), Compute({"D"}, "M", ""), At("SP"), Compute({"M"}, "D", ""),
       At("ARG"), Compute({"D"}, "M", ""), At("R15"), Compute({"M"}, "D", "") >>
    \o restore(pop, "THAT") \o restore(pop, "THIS") \o restore(pop, "ARG") \o restore(pop, "LCL")
    \o restore(pop, "R14")
    \o << At("R15"), Compute({"D"}, "M", ""), At("SP"), Compute({"M"}, "D", ""),
          At("R14"), Compute({"A"}, "M", ""), Compute({}, "0", "MP") >>

function(num_vars) ==
    IF num_vars = 0 THEN << Compute({}, "0", "") >> ELSE [i \in 1..num_vars |-> PushFrom("0")]

\* the ROM: the two common sequences and the callee's prologue; the callee's
\* body follows at body_address and the caller resumes at return_address
rom == call_common \o return_common(pop_d(call.pop)) \o function(call.num_vars)
call_common_label == 1
return_common_label == Len(call_common) + 1
function_label == Len(call_common) + Len(return_common(pop_d(call.pop))) + 1
body_address == Len(rom) + 1
return_address == Len(rom) + 2

\* the RAM: the named cells, then the stack; THIS and THAT point past it
stack_base == symbols.R15 + 1
frame_size == 5
MaxAddress == stack_base + MaxDepth + MaxArgs + frame_size + MaxVars + MaxCalleeSteps
heap(i) == MaxAddress + i

\* inM: SP when A is 0, else the RAM at A
M == IF reg_a = 0 THEN reg_sp ELSE ram[reg_a]

alu(comp) ==
    CASE comp = "0" -> 0 [] comp = "A" -> reg_a [] comp = "D" -> reg_d [] comp = "M" -> M
      [] comp = "M-D" -> M - reg_d [] comp = "D-1" -> reg_d - 1 [] comp = "M-1" -> M - 1

\* one cycle of the CPU on instr
Execute(instr) ==
    IF instr.op = "@"
    THEN /\ reg_a' = instr.value
         /\ ip' = ip + 1
         /\ UNCHANGED << reg_d, reg_sp, ram >>
    ELSE IF instr.op = "SP++"
    THEN /\ ram' = [ram EXCEPT ![reg_sp] = alu(instr.comp)]
         /\ reg_sp' = reg_sp + 1
         /\ ip' = ip + 1
         /\ UNCHANGED << reg_a, reg_d >>
    ELSE IF instr.op = "--SP"
    THEN /\ reg_a' = IF "A" \in instr.dest THEN ram[reg_sp - 1] ELSE reg_a
         /\ reg_d' = IF "D" \in instr.dest THEN ram[reg_sp - 1] ELSE reg_d
         /\ reg_sp' = reg_sp - 1
         /\ ip' = ip + 1
         /\ UNCHANGED ram
    ELSE LET out == alu(instr.comp)
         IN /\ reg_a' = IF "A" \in instr.dest THEN out ELSE reg_a
            /\ reg_d' = IF "D" \in instr.dest THEN out ELSE reg_d
            /\ reg_sp' = IF "M" \in instr.dest /\ reg_a = 0 THEN out ELSE reg_sp
            /\ ram' = IF "M" \in instr.dest /\ reg_a # 0 THEN [ram EXCEPT ![reg_a] = out] ELSE ram
            /\ ip' = IF jump_taken(instr.jump, out) THEN reg_a ELSE ip + 1

phase(address) ==
    IF address = return_address THEN "resumed"
    ELSE IF address = body_address THEN "callee"
    ELSE IF address < return_common_label THEN "call"
    ELSE IF address < function_label THEN "return"
    ELSE "function"

\* the caller has pushed the arguments of the call
CallInit ==
    /\ pc = "caller"
    /\ call \in [nargs : 0..MaxArgs, num_vars : 0..MaxVars, depth : 0..MaxDepth, pop : {"sp", "solved_07"}]
    /\ ip = 0 /\ reg_a = 0 /\ reg_d = 0
    /\ reg_sp = stack_base + call.depth + call.nargs
    /\ ram = [a \in 1..MaxAddress |->
                IF a = symbols.LCL THEN stack_base
                ELSE IF a = symbols.ARG THEN symbols.R15
                ELSE IF a = symbols.THIS THEN heap(1)
                ELSE IF a = symbols.THAT THEN heap(2)
                ELSE IF a >= stack_base /\ a < reg_sp THEN -a
                ELSE 0]
    /\ before = [SP |-> reg_sp, ram |-> ram]
    /\ callee_steps = 0
    /\ program = <<>>
    /\ CompileIdle /\ GraphIdle /\ CondIdle /\ ChipIdle

\* the site of a call: "D = num_args, R14 = callee address, stack: return address already pushed"
CallSite ==
    /\ pc = "caller"
    /\ ram' = [ram EXCEPT ![reg_sp] = return_address, ![symbols.R14] = function_label]
    /\ reg_sp' = reg_sp + 1
    /\ reg_d' = call.nargs
    /\ reg_a' = call_common_label
    /\ ip' = call_common_label
    /\ pc' = phase(ip')
    /\ UNCHANGED << call, before, callee_steps, program, compile_vars, graph_vars, cond_vars, chip_vars >>

\* one instruction of call_common, of the callee's prologue or of return_common
Cycle ==
    /\ pc \in {"call", "function", "return"}
    /\ Execute(rom[ip])
    /\ pc' = phase(ip')
    /\ UNCHANGED << call, before, callee_steps, program, compile_vars, graph_vars, cond_vars, chip_vars >>

\* what a statement of the callee's body may do to the machine: push or pop
\* above its locals, write a local, an argument, THIS, THAT or a temporary
CalleeStatement ==
    /\ pc = "callee"
    /\ callee_steps < MaxCalleeSteps
    /\ \/ /\ ram' = [ram EXCEPT ![reg_sp] = -1]
          /\ reg_sp' = reg_sp + 1
       \/ /\ reg_sp > ram[symbols.LCL] + call.num_vars
          /\ reg_sp' = reg_sp - 1
          /\ ram' = ram
       \/ /\ \E a \in {symbols.THIS, symbols.THAT, symbols.R13, symbols.R14} \cup
                      { ram[symbols.ARG] + i : i \in 0..(call.nargs - 1) } \cup
                      { ram[symbols.LCL] + i : i \in 0..(call.num_vars - 1) } :
               ram' = [ram EXCEPT ![a] = -1]
          /\ reg_sp' = reg_sp
    /\ reg_a' = -1 /\ reg_d' = -1
    /\ callee_steps' = callee_steps + 1
    /\ UNCHANGED << pc, ip, call, before, program, compile_vars, graph_vars, cond_vars, chip_vars >>

\* handle_Return of an expression that is not a call, then return_op
HandleReturn ==
    /\ pc = "callee"
    /\ \E imm \in {-1, 0, 1} : \E immediate \in BOOLEAN :
         /\ ram' = [ram EXCEPT ![symbols[RESULT]] = imm]
         /\ reg_d' = IF immediate THEN reg_d ELSE imm
    /\ reg_a' = return_common_label
    /\ ip' = return_common_label
    /\ pc' = phase(ip')
    /\ UNCHANGED << reg_sp, call, before, callee_steps, program, compile_vars, graph_vars, cond_vars, chip_vars >>

CallNext == CallSite \/ Cycle \/ CalleeStatement \/ HandleReturn

CallSpec == CallInit /\ [][CallNext]_vars

(***************************************************************************)
(* The multiplication listings MULT_ASM (project_04.py) and ASM (run.py)   *)
(* on the Hack computer: run.py assembles the listing, loads it with       *)
(* init_rom, pokes R0, R1 and R2, and calls ticktock.  Words are 16 bits.  *)
(***************************************************************************)
Label(name) == [op |-> "(", name |-> name]
AtName(name) == [op |-> "@", name |-> name]
AtNumber(value) == [op |-> "@", value |-> value]

MULT_ASM ==
    << AtName("R2"), Compute({"M"}, "0", ""),
       Label("loop"),
       AtNumber(2), Compute({"D"}, "M", ""),
       AtName("R2"), Compute({"D"}, "D+M", ""),
       AtName("R2"), Compute({"M"}, "D", ""),
       AtName("R1"), Compute({"D"}, "M", ""),
       AtNumber(1), Compute({"D"}, "D-A", ""),
       AtName("R1"), Compute({"M"}, "D", ""),
       AtName("end"), Compute({}, "D", "EQ"),
       AtName("loop"), Compute({}, "0", "MP"),
       Label("end"),
       AtName("end"), Compute({}, "0", "MP") >>

\* a listing whose loop adds R2 to itself, as MULT_ASM does
ASM_adds_R2 ==
    << AtName("R2"), Compute({"M"}, "0", ""),
       Label("loop"),
       AtNumber(2), Compute({"D"}, "M", ""),
       AtNumber(2), Compute({"D"}, "D+M", ""),
       AtNumber(2), Compute({"M"}, "D", ""),
       AtNumber(1), Compute({"D"}, "M", ""),
       AtNumber(1), Compute({"D"}, "D-A", ""),
       AtNumber(1), Compute({"M"}, "D", ""),
       AtName("end"), Compute({}, "D", "EQ"),
       AtName("loop"), Compute({}, "0", "MP"),
       Label("end"),
       AtName("end"), Compute({}, "0", "MP") >>

ASM ==
    << AtName("R2"), Compute({"M"}, "0", ""),
       Label("loop"),
       AtNumber(2), Compute({"D"}, "M", ""),
       AtNumber(0), Compute({"D"}, "D+M", ""),
       AtNumber(2), Compute({"M"}, "D", ""),
       AtNumber(1), Compute({"D"}, "M", ""),
       AtNumber(1), Compute({"D"}, "D-A", ""),
       AtNumber(1), Compute({"M"}, "D", ""),
       AtName("end"), Compute({}, "D", "EQ"),
       AtName("loop"), Compute({}, "0", "MP"),
       Label("end"),
       AtName("end"), Compute({}, "0", "MP") >>

predefined == [R0 |-> 0, R1 |-> 1, R2 |-> 2] @@ symbols

IsLabel(line) == line.op = "("

\* the ROM address a label stands for: the instructions before it
label_address(lines, name) ==
    LET at == CHOOSE i \in 1..Len(lines) : lines[i] = Label(name)
    IN Cardinality({ j \in 1..(at - 1) : ~IsLabel(lines[j]) })

\* the value an "@" line loads: a number, a predefined symbol or a label
resolve(lines, line) ==
    IF "value" \in DOMAIN line THEN line.value
    ELSE IF line.name \in DOMAIN predefined THEN predefined[line.name]
    ELSE label_address(lines, line.name)

\* the instructions of a listing, every "@" with its value; address n is element n + 1
assemble(lines) ==
    LET instructions == SelectSeq(lines, LAMBDA line : ~IsLabel(line))
    IN [n \in 1..Len(instructions) |->
           IF instructions[n].op = "@" THEN AtNumber(resolve(lines, instructions[n])) ELSE instructions[n]]

\* the ALU's out for the comp mnemonics of the listings, as a 16-bit word
hack_alu(comp, a, d, m) ==
    CASE comp = "0" -> 0 [] comp = "A" -> a [] comp = "D" -> d [] comp = "M" -> m
      [] comp = "D+M" -> unsigned(d + m) [] comp = "D-A" -> unsigned(d - a)
      [] comp = "1" -> 1 [] comp = "-1" -> unsigned(-1)
      [] comp = "-M" -> unsigned(-m) [] comp = "!M" -> unsigned(-1) - m
      [] comp = "M+1" -> unsigned(m + 1) [] comp = "M-1" -> unsigned(m - 1)
      [] comp = "M+D" -> unsigned(m + d) [] comp = "M-D" -> unsigned(m - d)
      [] comp = "D-M" -> unsigned(d - m) [] comp = "D+A" -> unsigned(d + a)

\* one ticktock on instr
HackExecute(instr) ==
    IF instr.op = "@"
    THEN /\ reg_a' = instr.value
         /\ ip' = ip + 1
         /\ UNCHANGED << reg_d, ram >>
    ELSE LET store(out) ==
                 /\ reg_a' = IF "A" \in instr.dest THEN out ELSE reg_a
                 /\ reg_d' = IF "D" \in instr.dest THEN out ELSE reg_d
                 /\ ram' = IF "M" \in instr.dest THEN [ram EXCEPT ![reg_a] = out] ELSE ram
                 /\ ip' = IF jump_taken(instr.jump, signed(out)) THEN reg_a ELSE ip + 1
         IN store(hack_alu(instr.comp, reg_a, reg_d, ram[reg_a]))

\* the values poked into R0 and R2, the -1 of run.py among them
Pokes == { unsigned(v) : v \in -MaxWord..MaxWord } \cup {3, 40000}

\* init_rom, poke(0, a), poke(1, b), poke(2, c), reset_program
HackInit ==
    /\ pc = "running"
    /\ program \in {MULT_ASM, ASM}
    /\ ip = 0 /\ reg_a = 0 /\ reg_d = 0 /\ reg_sp = 0
    /\ \E a \in Pokes : \E b \in 1..MaxMult : \E c \in Pokes :
         ram = [address \in 0..Len(program) |-> CASE address = 0 -> a [] address = 1 -> b [] address = 2 -> c [] OTHER -> 0]
    /\ before = [SP |-> 0, ram |-> ram]
    /\ call = NoExpr /\ callee_steps = 0
    /\ CompileIdle /\ GraphIdle /\ CondIdle /\ ChipIdle

\* computer.ticktock()
Ticktock ==
    /\ pc = "running"
    /\ HackExecute(assemble(program)[ip + 1])
    /\ UNCHANGED << pc, reg_sp, call, before, callee_steps, program, compile_vars, graph_vars, cond_vars, chip_vars >>

HackNext == Ticktock

HackSpec == HackInit /\ [][HackNext]_vars

\* the loop of run.py never stops calling ticktock
HackFairSpec == HackSpec /\ WF_vars(Ticktock)

(***************************************************************************)
(* The chips of project_01.py, built from Nand, and eval of a chip on      *)
(* keyword arguments as test_01.py calls it.  A wire carries 0 or 1; the   *)
(* 16 wires of in_ and out of Not16 are the bits of a word.                *)
(***************************************************************************)
Bits == {0, 1}

\* run_op on (a_mask | b_mask, out_mask): out is cleared when both inputs are set, else set
Nand(a, b) == IF a = 1 /\ b = 1 THEN 0 ELSE 1

Not(in_) == Nand(in_, in_)

Or(a, b) == Nand(Not(a), Not(b))

And(a, b) == Nand(Nand(a, b), 1)

Xor(a, b) == Or(And(a, Not(b)), And(Not(a), b))

\* a multiplexer that lets a pass when sel is 1
Mux_a_when_sel(a, b, sel) == Nand(Nand(a, sel), Nand(b, Nand(sel, sel)))

Mux(a, b, sel) == Nand(Nand(a, Nand(sel, sel)), Nand(b, sel))

DMux(in_, sel) == [a |-> And(in_, Not(sel)), b |-> And(in_, sel)]

WordWidth == 16

\* wire i of a word, wire 0 the least significant
bit(word, i) == (word \div 2^i) % 2

RECURSIVE word_from(_, _)
\* the word whose wires from i up are wires
word_from(wires, i) == IF i = WordWidth THEN 0 ELSE wires[i] * 2^i + word_from(wires, i + 1)

Not16(in_) == word_from([i \in 0..(WordWidth - 1) |-> Not(bit(in_, i))], 0)

\* eval(chip, **inputs): the outputs of the chip
eval(name, args) ==
    CASE name = "Nand" -> [out |-> Nand(args.a, args.b)]
      [] name = "Not" -> [out |-> Not(args.in_)]
      [] name = "Or" -> [out |-> Or(args.a, args.b)]
      [] name = "And" -> [out |-> And(args.a, args.b)]
      [] name = "Xor" -> [out |-> Xor(args.a, args.b)]
      [] name = "Mux" -> [out |-> Mux(args.a, args.b, args.sel)]
      [] name = "DMux" -> DMux(args.in_, args.sel)
      [] name = "Not16" -> [out |-> Not16(args.in_)]

\* the keyword arguments a chip takes
Arguments(name) ==
    CASE name \in {"Nand", "Or", "And", "Xor"} -> [a : Bits, b : Bits]
      [] name = "Not" -> [in_ : Bits]
      [] name = "Mux" -> [a : Bits, b : Bits, sel : Bits]
      [] name = "DMux" -> [in_ : Bits, sel : Bits]
      [] name = "Not16" -> [in_ : 0..(2^WordWidth - 1)]

ChipInit ==
    /\ pc = "wired"
    /\ chip \in {"Nand", "Not", "Or", "And", "Xor", "Mux", "DMux", "Not16"}
    /\ inputs \in Arguments(chip)
    /\ outputs = NoExpr
    /\ CompileIdle /\ GraphIdle /\ CondIdle /\ MachineIdle /\ VectorIdle

\* eval(chip, **inputs)
EvalChip ==
    /\ pc = "wired"
    /\ outputs' = eval(chip, inputs)
    /\ pc' = "evaluated"
    /\ UNCHANGED << chip, inputs, vector_vars, compile_vars, graph_vars, cond_vars, machine_vars >>

ChipNext == EvalChip

ChipSpec == ChipInit /\ [][ChipNext]_vars

(***************************************************************************)
(* The translator's expression handlers and handle_Eval (reg.py lines      *)
(* 1014-1063 and 1284-1480).  The assembly is the list of the strings      *)
(* given to asm.instr.  A label is written by the name given to            *)
(* asm.next_label, and the call sequence of the base translator as one     *)
(* line "call <class>.<sub> <n>".                                          *)
(***************************************************************************)
\* f"@R{5+index}"
at_reg(index) == "@R" \o ToString(5 + index)

\* a format that writes the magnitude after a plus sign
plus_format_magnitude(imm) == "+" \o ToString(IF imm >= 0 THEN imm ELSE -imm)

\* f"{imm:+}"
plus_format(imm) == IF imm >= 0 THEN "+" \o ToString(imm) ELSE ToString(imm)

\* immediate(ast) is not None
has_immediate(ast) == ast.k = "Const" /\ -1 <= ast.value /\ ast.value <= 1

binary_op_alu(op) == IF op \in {"+", "-", "&", "|"} THEN op ELSE "None"

binary_op_cmp(op) == CASE op = "<" -> "LT" [] op = ">" -> "GT" [] op = "=" -> "EQ" [] OTHER -> "None"

unary_op(op) == CASE op = "-" -> "-" [] op = "~" -> "!"

handle_Const(ast) ==
    IF -1 <= ast.value /\ ast.value <= 1 THEN << "D=" \o ToString(ast.value) >>
    ELSE IF ast.value >= 0 THEN << "@" \o ToString(ast.value), "D=A" >>
    ELSE << "@" \o ToString(-ast.value), "D=-A" >>

handle_Location(ast) ==
    IF ast.kind = "static" THEN << "@" \o class_name \o ".static" \o ToString(ast.index), "D=M" >>
    ELSE (IF ast.index = 0 THEN << "@" \o (IF ast.kind = "argument" THEN "ARG" ELSE "LCL"), "A=M" >>
          ELSE IF ast.index = 1 THEN << "@" \o (IF ast.kind = "argument" THEN "ARG" ELSE "LCL"), "A=M+1" >>
          ELSE IF ast.index = 2 THEN << "@" \o (IF ast.kind = "argument" THEN "ARG" ELSE "LCL"), "A=M+1", "A=A+1" >>
          ELSE << "@" \o ToString(ast.index), "D=A", "@" \o (IF ast.kind = "argument" THEN "ARG" ELSE "LCL"), "A=D+M" >>)
         \o << "D=M" >>

handle_Reg(ast) == << at_reg(ast.index), "D=M" >>

value_to_a(ast) ==
    IF ast.k = "Reg" THEN << at_reg(ast.index), "A=M" >>
    ELSE IF -1 <= ast.value /\ ast.value <= 1 THEN << "A=" \o ToString(ast.value) >>
    ELSE IF ast.value >= 0 THEN << "@" \o ToString(ast.value) >>
    ELSE << "@" \o ToString(-ast.value), "A=-A" >>

\* _handle of a Value
handle_value(ast) == IF ast.k = "Reg" THEN handle_Reg(ast) ELSE handle_Const(ast)

handle_Binary(ast) ==
    IF binary_op_alu(ast.op) = "+" /\ ast.left.k = "Reg" /\ has_immediate(ast.right)
    THEN << at_reg(ast.left.index), "D=M" \o plus_format(ast.right.value) >>
    ELSE IF binary_op_alu(ast.op) = "-" /\ ast.left.k = "Reg" /\ has_immediate(ast.right)
    THEN << at_reg(ast.left.index), "D=M" \o plus_format(-ast.right.value) >>
    ELSE IF binary_op_alu(ast.op) # "None"
    THEN handle_value(ast.left) \o value_to_a(ast.right) \o << "D=D" \o binary_op_alu(ast.op) \o "A" >>
    ELSE \* binary_op_cmp(ast.op) is not None
         handle_value(ast.left)
         \o (IF has_immediate(ast.right) /\ ast.right.value = 0 THEN <<>>
             ELSE IF has_immediate(ast.right) THEN << "D=D" \o plus_format(-ast.right.value) >>
             ELSE value_to_a(ast.right) \o << "D=D-A" >>)
         \o << "@compare_true", "D;J" \o binary_op_cmp(ast.op), "D=0", "@compare_end", "0;JMP",
               "(compare_true)", "D=-1", "(compare_end)" >>

handle_Unary(ast) ==
    IF ast.value.k = "Reg" THEN << at_reg(ast.value.index), "D=" \o unary_op(ast.op) \o "M" >>
    ELSE handle_value(ast.value) \o << "D=" \o unary_op(ast.op) \o "D" >>

handle_IndirectRead(ast) == value_to_a(ast.address) \o << "D=M" >>

handle_CallSub(ast) ==
    << "call " \o ast.class_name \o "." \o ast.sub_name \o " " \o ToString(ast.num_args), "@" \o RESULT, "D=M" >>

\* _handle of an expression
handle_expr(ast) ==
    CASE ast.k = "CallSub" -> handle_CallSub(ast)
      [] ast.k = "Const" -> handle_Const(ast)
      [] ast.k = "Location" -> handle_Location(ast)
      [] ast.k = "Reg" -> handle_Reg(ast)
      [] ast.k = "Binary" -> handle_Binary(ast)
      [] ast.k = "Unary" -> handle_Unary(ast)
      [] ast.k = "IndirectRead" -> handle_IndirectRead(ast)

\* "dest.index == value.index": the index attribute of a Const is the tuple method, equal to no int
same_index(dest, value) == value.k \in {"Reg", "Location"} /\ dest.index = value.index

\* lines 1052-1063
handle_Eval_store(ast) ==
    IF has_immediate(ast.expr) THEN << at_reg(ast.dest.index), "M=" \o ToString(ast.expr.value) >>
    ELSE handle_expr(ast.expr) \o << at_reg(ast.dest.index), "M=D" >>

handle_Eval(ast) ==
    IF ast.expr.k = "Binary" /\ same_index(ast.dest, ast.expr.left)
    THEN IF binary_op_alu(ast.expr.op) = "None" THEN handle_Eval_store(ast)
         ELSE IF binary_op_alu(ast.expr.op) = "+" /\ has_immediate(ast.expr.right)
         THEN (IF ast.expr.right.value = 0 THEN <<>>
               ELSE << at_reg(ast.dest.index), "M=M" \o plus_format(ast.expr.right.value) >>)
         ELSE IF binary_op_alu(ast.expr.op) = "-" /\ has_immediate(ast.expr.right)
         THEN (IF ast.expr.right.value = 0 THEN <<>>
               ELSE << at_reg(ast.dest.index), "M=M" \o plus_format(-ast.expr.right.value) >>)
         ELSE handle_value(ast.expr.right) \o << at_reg(ast.dest.index), "M=M" \o binary_op_alu(ast.expr.op) \o "D" >>
    ELSE IF ast.expr.k = "Binary" /\ same_index(ast.dest, ast.expr.right)
    THEN IF binary_op_alu(ast.expr.op) = "None" THEN handle_Eval_store(ast)
         ELSE handle_value(ast.expr.left) \o << at_reg(ast.dest.index), "M=D" \o binary_op_alu(ast.expr.op) \o "M" >>
    ELSE IF ast.expr.k = "Unary" /\ ast.dest = ast.expr
    THEN << at_reg(ast.dest.index), "M=" \o unary_op(ast.expr.op) \o "M" >>
    ELSE handle_Eval_store(ast)

(***************************************************************************)
(* The translator's output for an Eval run on the Hack computer, with the  *)
(* registers of the IR in R5 and up.  The statement is an Eval over        *)
(* registers, or the difference that flatten_statement puts in front of    *)
(* the If of "if (x op y) { }", locked down with x in register 0 and y in  *)
(* register 1; the If then branches on the difference.                     *)
(***************************************************************************)
\* the mnemonics of the comp field that the ALU above computes
CompMnemonics ==
    {"0", "1", "-1", "A", "D", "M", "-M", "!M", "M+1", "M-1", "M+D", "M-D", "D+M", "D-M", "D-A", "D+A"}

\* the assembler on one line of the translator's output: "@R<n>", "@<n>" or "<dest>=<comp>"
parse_line(line) ==
    IF \E n \in 0..symbols.R15 : line = "@R" \o ToString(n)
    THEN AtNumber(CHOOSE n \in 0..symbols.R15 : line = "@R" \o ToString(n))
    ELSE IF \E n \in 0..MaxConst : line = "@" \o ToString(n)
    THEN AtNumber(CHOOSE n \in 0..MaxConst : line = "@" \o ToString(n))
    ELSE LET compute(c) == Compute({c[1]}, c[2], "")
         IN compute(CHOOSE c \in {"A", "D", "M"} \X CompMnemonics : line = c[1] \o "=" \o c[2])

\* the name of the Local that lock_down_locals bound to register i
reg_name(i) == IF i = 0 THEN "x" ELSE "y"

\* the Evals over registers handed to handle_Eval: a register and a constant, and a negated register
EvalPool ==
    { Eval(Reg(i, reg_name(i)), Binary(Reg(i, reg_name(i)), op, Const(c))) :
        i \in 0..1, op \in {"+", "-"}, c \in -1..MaxConst } \cup
    { Eval(Reg(i, reg_name(i)), Unary(op, Reg(j, reg_name(j)))) : i \in 0..1, j \in 0..1, op \in {"-", "~"} }

TranslateInit ==
    /\ \/ /\ pc = "condition"
          /\ \E op \in {"<", ">", "="} : cond = BinaryExpression(VarRef("x"), op, VarRef("y"))
          /\ body = <<>>
          /\ reg_d = 0
       \/ /\ pc = "statement"
          /\ cond = NoExpr
          /\ body \in { << st >> : st \in EvalPool }
          /\ reg_d \in {0, 7}
    /\ \E v \in Words : \E w \in Words :
         ram = [address \in 0..symbols.R15 |-> CASE address = 5 -> v [] address = 6 -> w [] OTHER -> 0]
    /\ before = [D |-> reg_d, ram |-> ram]
    /\ ip = 0 /\ reg_a = 0 /\ reg_sp = 0 /\ program = <<>> /\ call = NoExpr /\ callee_steps = 0
    /\ jack = NoExpr /\ flat = <<>> /\ promoted_count = 0 /\ reg_count = DefaultRegCount
    /\ rounds = 0 /\ raised = "" /\ prefixes = <<>>
    /\ word_x = 0 /\ cond_out = NoExpr
    /\ GraphIdle /\ ChipIdle

\* flatten_statement on "if (cond) { }", then lock_down_locals with the difference in a register d
LowerCondition ==
    /\ pc = "condition"
    /\ \E d \in 0..2 :
         body' = lock_down_locals(flatten_statement(IfStatement(cond, <<>>, FALSE, <<>>), [k |-> "Unbound"], 0).stmts,
                                  [n \in {"x", "y", flatten_next_var("", 0).name} |->
                                      IF n = "x" THEN Reg(0, n) ELSE IF n = "y" THEN Reg(1, n) ELSE Reg(d, n)])
    /\ pc' = "statement"
    /\ UNCHANGED << jack, flat, promoted_count, reg_count, rounds, raised, prefixes,
                    graph_vars, cond_vars, machine_vars, chip_vars >>

\* handle_Eval on the first statement, and what handle_If emits to load the value it tests
Translate ==
    /\ pc = "statement"
    /\ program' = handle_Eval(body[1]) \o (IF Len(body) > 1 THEN handle_value(body[2].value) ELSE <<>>)
    /\ pc' = "translated"
    /\ UNCHANGED << ip, reg_a, reg_d, reg_sp, ram, call, before, callee_steps,
                    compile_vars, graph_vars, cond_vars, chip_vars >>

\* one ticktock on the next instruction of the output
Instruction ==
    /\ pc = "translated"
    /\ ip < Len(program)
    /\ HackExecute(parse_line(program[ip + 1]))
    /\ UNCHANGED << pc, reg_sp, call, before, callee_steps, program, compile_vars, graph_vars, cond_vars, chip_vars >>

\* handle_If's "@<label>" and "D;J<neg>" once the tested value is in D
ConditionalBranch ==
    /\ pc = "translated"
    /\ ip = Len(program)
    /\ Len(body) > 1
    /\ pc' = branch(body[2], reg_d)
    /\ UNCHANGED << compile_vars, graph_vars, cond_vars, machine_vars, chip_vars >>

TranslateNext == LowerCondition \/ Translate \/ Instruction \/ ConditionalBranch

TranslateSpec == TranslateInit /\ [][TranslateNext]_vars

(***************************************************************************)
(* The bit-vector evaluator (nand/evaluator.py).  A bit vector is the set  *)
(* of the positions of its 1 bits, so | is \cup, & ~ is \ and              *)
(* ts & m == m is m \subseteq ts.  An op made by nand_op is the pair of    *)
(* its masks; an op made by custom_op carries its function, and the field  *)
(* nand tells the two apart as op[0] is None does.                         *)
(***************************************************************************)
TraceBits == 0..(NBits - 1)

nand_op(a_mask, b_mask, out_mask) == [nand |-> TRUE, in_mask |-> a_mask \cup b_mask, out_mask |-> out_mask]

custom_op(f) == [nand |-> FALSE, f |-> f]

run_op(op, ts) ==
    IF ~op.nand THEN op.f[ts]
    ELSE IF op.in_mask \subseteq ts THEN ts \ op.out_mask
    ELSE ts \cup op.out_mask

RECURSIVE run_ops(_, _)
run_ops(ops, ts) == IF ops = <<>> THEN ts ELSE run_ops(Tail(ops), run_op(Head(ops), ts))

\* the f of _propagate: one pass over combine_ops
combine_pass(ops, ts) == run_ops(ops, ts)

limit == 4

non_back_edge_mask == {}

\* One pass only: the vector is declared settled after the first pass.
_propagate_one_pass(ops, ts, is_dirty) ==
    IF ~is_dirty THEN [traces |-> ts, dirty |-> is_dirty, raised |-> FALSE, passes |-> 0]
    ELSE [traces |-> combine_pass(ops, ts), dirty |-> FALSE, raised |-> FALSE, passes |-> 1]

\* NandVector._propagate on combine_ops = ops, traces = ts, dirty = is_dirty:
\* the traces and dirty it leaves, whether it raised, and the passes it made.
RECURSIVE propagate_loop(_, _, _)
propagate_loop(ops, previous, i) ==
    IF i = limit THEN [traces |-> previous, dirty |-> TRUE, raised |-> TRUE, passes |-> i]
    ELSE LET pass(next) ==
                 IF next = previous
                 THEN [traces |-> next, dirty |-> FALSE, raised |-> FALSE, passes |-> i + 1]
                 ELSE IF (((next \ previous) \cup (previous \ next)) \ non_back_edge_mask) = {}
                 THEN [traces |-> next, dirty |-> FALSE, raised |-> FALSE, passes |-> i + 1]
                 ELSE propagate_loop(ops, next, i + 1)
         IN pass(combine_pass(ops, previous))

_propagate(ops, ts, is_dirty) ==
    IF ~is_dirty THEN [traces |-> ts, dirty |-> is_dirty, raised |-> FALSE, passes |-> 0]
    ELSE propagate_loop(ops, ts, 0)

\* inputs, outputs and internal of the vectors built: every trace is an input
\* and an internal under its position, and the last trace is the output "out".
vector_inputs == [key \in TraceBits |-> {key}]

vector_outputs == [key \in {"out"} |-> {NBits - 1}]

vector_internal == [key \in TraceBits |-> {key}]

\* the function of a custom op that copies the trace src to the trace dst
copy_bit(src, dst) == [ts \in SUBSET TraceBits |-> IF src \in ts THEN ts \cup {dst} ELSE ts \ {dst}]

\* k inverters in a row, each written after (forward) or before (reverse) the one it reads
ForwardChain(k) == [j \in 1..k |-> nand_op({j - 1}, {j - 1}, {j})]

ReverseChain(k) == [j \in 1..k |-> nand_op({k - j}, {k - j}, {k - j + 1})]

CombinePool ==
    { ForwardChain(k) : k \in 1..(NBits - 1) } \cup { ReverseChain(k) : k \in 1..(NBits - 1) }
    \cup { << nand_op({0}, {1}, {1}) >>,
           << nand_op({0}, {2}, {1}), nand_op({1}, {3}, {2}) >> }

SequencePool == { <<>>, << custom_op(copy_bit(NBits - 1, 0)) >>, << nand_op({1}, {1}, {0}) >> }

InitializePool == { <<>>, << nand_op({0}, {0}, {1}) >> }

\* NandVector(inputs, outputs, internal, initialize_ops, combine_ops, sequence_ops)
VectorInit ==
    /\ pc = "vector"
    /\ combine_ops \in CombinePool
    /\ sequence_ops \in SequencePool
    /\ \E initialize_ops \in InitializePool : traces = run_ops(initialize_ops, {})
    /\ dirty = TRUE
    /\ last = [call |-> "__init__", raised |-> FALSE]
    /\ chip = "" /\ inputs = NoExpr /\ outputs = NoExpr
    /\ CompileIdle /\ GraphIdle /\ CondIdle /\ MachineIdle

\* set(key, value)
VectorSet ==
    /\ \E key \in DOMAIN vector_inputs, value \in BOOLEAN :
         /\ traces' = (IF value THEN traces \cup vector_inputs[key] ELSE traces \ vector_inputs[key])
         /\ last' = [call |-> "set", raised |-> FALSE]
    /\ dirty' = TRUE
    /\ UNCHANGED << pc, combine_ops, sequence_ops, chip, inputs, outputs, compile_vars, graph_vars, cond_vars, machine_vars >>

\* get(key)
VectorGet ==
    /\ \E key \in DOMAIN vector_outputs :
         LET done(r) ==
                 /\ traces' = r.traces
                 /\ dirty' = r.dirty
                 /\ last' = IF r.raised THEN [call |-> "get", raised |-> TRUE]
                            ELSE [call |-> "get", raised |-> FALSE, passes |-> r.passes,
                                  value |-> (r.traces \cap vector_outputs[key] # {})]
         IN done(_propagate(combine_ops, traces, dirty))
    /\ UNCHANGED << pc, combine_ops, sequence_ops, chip, inputs, outputs, compile_vars, graph_vars, cond_vars, machine_vars >>

\* get_internal(key)
VectorGetInternal ==
    /\ \E key \in DOMAIN vector_internal :
         LET done(r) ==
                 /\ traces' = r.traces
                 /\ dirty' = r.dirty
                 /\ last' = IF r.raised THEN [call |-> "get_internal", raised |-> TRUE]
                            ELSE [call |-> "get_internal", raised |-> FALSE, passes |-> r.passes,
                                  value |-> (r.traces \cap vector_internal[key] # {})]
         IN done(_propagate(combine_ops, traces, dirty))
    /\ UNCHANGED << pc, combine_ops, sequence_ops, chip, inputs, outputs, compile_vars, graph_vars, cond_vars, machine_vars >>

\* _flop()
VectorFlop ==
    /\ LET done(r) ==
               IF r.raised
               THEN /\ traces' = r.traces
                    /\ dirty' = r.dirty
                    /\ last' = [call |-> "_flop", raised |-> TRUE]
               ELSE /\ traces' = run_ops(sequence_ops, r.traces)
                    /\ dirty' = TRUE
                    /\ last' = [call |-> "_flop", raised |-> FALSE]
       IN done(_propagate(combine_ops, traces, dirty))
    /\ UNCHANGED << pc, combine_ops, sequence_ops, chip, inputs, outputs, compile_vars, graph_vars, cond_vars, machine_vars >>

VectorNext == VectorSet \/ VectorGet \/ VectorGetInternal \/ VectorFlop

VectorSpec == VectorInit /\ [][VectorNext]_vars

(***************************************************************************)
(* Vocabulary of the properties: the statements and the operand nodes of   *)
(* a body, at any nesting depth.                                           *)
(***************************************************************************)
RECURSIVE AllStatements(_)
AllStatements(stmts) ==
    IF stmts = <<>> THEN {}
    ELSE LET st == Head(stmts)
             nested == IF st.k = "If" THEN AllStatements(st.when_true) \cup AllStatements(st.when_false)
                       ELSE IF st.k = "While" THEN AllStatements(st.test) \cup AllStatements(st.body)
                       ELSE {}
         IN {st} \cup nested \cup AllStatements(Tail(stmts))

ExprNodes(e) ==
    {e} \cup (IF e.k = "Binary" THEN {e.left, e.right}
              ELSE IF e.k = "Unary" THEN {e.value}
              ELSE IF e.k = "IndirectRead" THEN {e.address}
              ELSE {})

StatementNodes(st) ==
    IF st.k = "Eval" THEN {st.dest} \cup ExprNodes(st.expr)
    ELSE IF st.k = "IndirectWrite" THEN {st.address, st.value}
    ELSE IF st.k = "Store" THEN {st.location} \cup ExprNodes(st.value)
    ELSE IF st.k \in {"If", "While"} THEN ExprNodes(st.value)
    ELSE ExprNodes(st.expr)

AllNodes(stmts) == UNION { StatementNodes(st) : st \in AllStatements(stmts) }
LocalNames(stmts) == { e.name : e \in { d \in AllNodes(stmts) : d.k = "Local" } }
RegNames(stmts) == { e.name : e \in { d \in AllNodes(stmts) : d.k = "Reg" } }
RegIndices(stmts) == { e.index : e \in { d \in AllNodes(stmts) : d.k = "Reg" } }
StackNames(stmts) == { e.name : e \in { d \in AllNodes(stmts) : d.k = "Location" /\ d.kind = "local" } }

(***************************************************************************)
(* C1.                                                                     *)
(***************************************************************************)
ColorsOf(v) == { i \in 1..Len(color_sets) : v \in color_sets[i] }

\* C1: for every vertex order and every edge set, color_graph places the two
\* ends of each edge (x, y) with x # y in different colour sets of its result.
C1_EdgeEndsInDifferentSets ==
    pc = "colored" =>
        \A e \in edges : e[1] # e[2] =>
            /\ ColorsOf(e[1]) # {} /\ ColorsOf(e[2]) # {}
            /\ ColorsOf(e[1]) \cap ColorsOf(e[2]) = {}

C1_Witness ==
    /\ pc = "colored"
    /\ Len(color_sets) >= 2
    /\ \E e \in edges : e[1] # e[2] /\ vertices[1] = e[2]

(***************************************************************************)
(* C7.                                                                     *)
(***************************************************************************)
JackHolds(op, left, right) == CASE op = "<" -> left < right [] op = ">" -> left > right [] op = "=" -> left = right

\* the word the tested value holds when the local x holds word_x
TestedWord == IF cond_out.value.k = "Const" THEN cond_out.value.value ELSE word_x

\* C7: for 0 op x with op in {<, >, =} and every word x, the lowered test
\* "value cmp 0" passes exactly when 0 op x is true.
C7_ZeroLeftKeepsTruth ==
    (pc = "lowered" /\ IsIntegerConstant0(cond.left)) =>
        /\ cond_out.stmts = <<>>
        /\ Holds(cond_out.cmp, TestedWord) <=> JackHolds(cond.op, 0, word_x)

(***************************************************************************)
(* C2.  Liveness by paths: x is live at a point when some path of the      *)
(* control flow, back edges and exits of While included, reads x before    *)
(* assigning it.                                                           *)
(***************************************************************************)
RECURSIVE LiveIn(_, _), LoopTop(_, _, _), StatementLiveIn(_, _)

\* the locals live at the top of a While (before its test), by iteration from top
LoopTop(st, out, top) ==
    LET next == LiveIn(st.test, refs(st.value) \cup out \cup LiveIn(st.body, top))
    IN IF next \subseteq top THEN top ELSE LoopTop(st, out, top \cup next)

StatementLiveIn(st, out) ==
    IF st.k = "Eval" THEN (out \ refs(st.dest)) \cup refs(st.expr)
    ELSE IF st.k = "IndirectWrite" THEN out \cup refs(st.address) \cup refs(st.value)
    ELSE IF st.k = "Store" THEN out \cup refs(st.value)
    ELSE IF st.k = "Push" THEN out \cup refs(st.expr)
    ELSE IF st.k = "Return" THEN refs(st.expr)
    ELSE IF st.k = "If"
         THEN refs(st.value) \cup LiveIn(st.when_true, out) \cup
              (IF st.has_when_false THEN LiveIn(st.when_false, out) ELSE out)
    ELSE IF st.k = "While" THEN LoopTop(st, out, {})
    ELSE out

LiveIn(stmts, out) ==
    IF stmts = <<>> THEN out ELSE StatementLiveIn(Head(stmts), LiveIn(Tail(stmts), out))

\* the locals that some path reads after a CallSub of stmts without assigning them in between
RECURSIVE LiveAcrossCalls(_, _)
LiveAcrossCalls(stmts, out) ==
    IF stmts = <<>> THEN {}
    ELSE LET st == Head(stmts)
             after == LiveIn(Tail(stmts), out)
             here == IF IsCall(st) THEN (IF st.k = "Eval" THEN after \ refs(st.dest) ELSE after)
                     ELSE IF st.k = "If"
                          THEN LiveAcrossCalls(st.when_true, after) \cup LiveAcrossCalls(st.when_false, after)
                     ELSE IF st.k = "While"
                          THEN LET top == LoopTop(st, after, {})
                               IN LiveAcrossCalls(st.test, refs(st.value) \cup after \cup LiveIn(st.body, top))
                                  \cup LiveAcrossCalls(st.body, top)
                     ELSE {}
         IN here \cup LiveAcrossCalls(Tail(stmts), out)

\* C2: in the body phase_two returns, every local that some path reads after
\* a CallSub without an assignment in between is held in a stack Location and
\* in no Reg.
C2_LiveAcrossCallIsOnStack ==
    pc = "returned" =>
        \A x \in LiveAcrossCalls(flat, {}) : x \in StackNames(body) /\ x \notin RegNames(body)

(***************************************************************************)
(* C3.                                                                     *)
(***************************************************************************)
\* C3: after promote_locals has been applied for the need_saving set, first
\* or fallback, need_saving of the rewritten body is empty, and "More than
\* one round of promotion needed" is never raised.
C3_NothingLeftToSave ==
    /\ pc = "allocating" => need_saving(analyze_liveness(body, {})) = {}
    /\ raised # "More than one round of promotion needed"

C3_Witness ==
    /\ pc = "allocating"
    /\ rounds >= 1
    /\ need_saving(analyze_liveness(flat, {})) # {}
    /\ promoted_count > Cardinality(need_saving(analyze_liveness(flat, {})))

(***************************************************************************)
(* C4.                                                                     *)
(***************************************************************************)
\* C4: the body phase_two returns has no Local at any depth, and the index of
\* every Reg in it is at least 0 and less than reg_count.
C4_OnlyRegistersBelowRegCount ==
    pc = "returned" =>
        /\ LocalNames(body) = {}
        /\ \A i \in RegIndices(body) : 0 <= i /\ i < reg_count

C4_Witness ==
    /\ pc = "returned"
    /\ reg_count = SmallRegCount
    /\ RegIndices(body) = 0..(SmallRegCount - 1)
    /\ LocalNames(flat) # {}

(***************************************************************************)
(* C5.                                                                     *)
(***************************************************************************)
\* C5: the allocation loop of phase_two terminates for every flattened
\* subroutine and every order of the vertices, and it ends by phase_two
\* returning: whenever the loop has stopped, it has stopped with the return
\* of the allocated body and no run of it ends in an exception.
C5_AllocationEndsByReturning == pc # "raised"

(***************************************************************************)
(* C6.  The reference compilation iterates every set in Canonical order.   *)
(***************************************************************************)
RECURSIVE reference_rounds(_, _, _)
reference_rounds(st, regs, fuel) ==
    IF st.pc # "allocating" \/ fuel = 0 THEN st
    ELSE LET liveness == analyze_liveness(st.body, {})
             local_sets == color_locals(liveness, Canonical(live_vars(liveness)))
         IN reference_rounds(alloc_round(st.body, st.promoted_count, regs, Canonical(live_vars(liveness)),
                                         Canonical(unallocatable(local_sets, regs))),
                             regs, fuel - 1)

reference_compilation(flat_body, regs) ==
    reference_rounds(first_promotion(flat_body, Canonical(need_saving(analyze_liveness(flat_body, {})))),
                     regs, MaxRounds + 1)

\* C6: for a fixed flattened body and reg_count, the body and the promoted
\* count that phase_two returns do not depend on the order in which the sets
\* of names are iterated: every compilation that returns, returns what the
\* compilation iterating in a fixed order returns.
C6_SameResultForEveryOrder ==
    pc = "returned" =>
        LET ref == reference_compilation(flat, reg_count)
        IN ref.pc = "returned" => body = ref.body /\ promoted_count = ref.promoted_count

(***************************************************************************)
(* C8.                                                                     *)
(***************************************************************************)
OperandsAreValues(stmts) ==
    \A st \in AllStatements(stmts) :
        /\ st.k = "IndirectWrite" => IsValue(st.address) /\ IsValue(st.value)
        /\ st.k = "Store" => IsValue(st.value)
        /\ st.k \in {"If", "While"} => IsValue(st.value)

\* C8: after flatten_subroutine, after promote_locals and after
\* lock_down_locals, the address and the value of every IndirectWrite, the
\* value of every Store and the tested value of every If and While are
\* Values (Const, Local or Reg), never a Location.
C8_OperandsAreValues == pc \in {"flat", "allocating", "returned"} => OperandsAreValues(body)

(***************************************************************************)
(* C9.                                                                     *)
(***************************************************************************)
\* the count of pending arguments after stmts when it is p before them, or -1
\* where the discipline is broken
HasCall(st) == st.k \in {"Eval", "Push", "Discard", "Return"} /\ st.expr.k = "CallSub"

RECURSIVE Pending(_, _)
Pending(stmts, p) ==
    IF p < 0 THEN -1
    ELSE IF stmts = <<>> THEN p
    ELSE LET st == Head(stmts)
             q == IF HasCall(st)
                  THEN (IF p < st.expr.num_args THEN -1
                        ELSE IF st.k = "Push" THEN p - st.expr.num_args + 1
                        ELSE IF st.k \in {"Discard", "Return"} /\ p # st.expr.num_args THEN -1
                        ELSE p - st.expr.num_args)
                  ELSE IF st.k = "Push" THEN p + 1
                  ELSE IF st.k = "If"
                       THEN (IF p = 0 /\ Pending(st.when_true, 0) = 0 /\ Pending(st.when_false, 0) = 0 THEN 0 ELSE -1)
                  ELSE IF st.k = "While"
                       THEN (IF p = 0 /\ Pending(st.test, 0) = 0 /\ Pending(st.body, 0) = 0 THEN 0 ELSE -1)
                  ELSE IF st.k \in {"Return", "IndirectWrite"} THEN (IF p = 0 THEN 0 ELSE -1)
                  ELSE p
         IN Pending(Tail(stmts), q)

\* C9: in the flattened body, and still after promote_locals and
\* lock_down_locals, the count of pending arguments (+1 at each Push, -nargs
\* at each CallSub) is never negative, is at least nargs before each CallSub,
\* and is 0 after each statement of the source and at the end of each block.
C9_StackDiscipline == pc \in {"flat", "allocating", "returned"} => Pending(body, 0) = 0

C9_Witness ==
    /\ pc = "returned"
    /\ promoted_count > 0
    /\ \E st \in AllStatements(body) : IsCall(st) /\ st.k = "Eval" /\ st.expr.num_args >= 1
    /\ \E st \in AllStatements(body) : IsCall(st) /\ st.k = "Discard" /\ st.expr.num_args >= 2

(***************************************************************************)
(* C10.                                                                    *)
(***************************************************************************)
\* C10: after the call sequence for a callee with nargs arguments and the
\* callee's common return sequence, LCL, ARG, THIS and THAT hold the values
\* they had before the call, SP is its value before the call less nargs, the
\* stack cells below that SP are unchanged and control is at the return
\* address; for nargs = 0 as for the others.
C10_FrameProtocol ==
    pc = "resumed" =>
        /\ \A p \in {"LCL", "ARG", "THIS", "THAT"} : ram[symbols[p]] = before.ram[symbols[p]]
        /\ reg_sp = before.SP - call.nargs
        /\ \A a \in stack_base..(reg_sp - 1) : ram[a] = before.ram[a]
        /\ ip = return_address

C10_Witness ==
    /\ pc = "resumed"
    /\ call.nargs = 0 /\ call.depth > 0 /\ call.num_vars > 0
    /\ callee_steps = MaxCalleeSteps
    /\ ram[before.SP] # before.ram[before.SP]

(***************************************************************************)
(* C11.  The branch of an If or a While.                                   *)
(***************************************************************************)
\* "value cmp 0" for the value a word stands for
CmpZero(cmp, v) ==
    CASE cmp = "=" -> v = 0 [] cmp = "!=" -> v # 0 [] cmp = "<" -> v < 0
      [] cmp = ">" -> v > 0 [] cmp = "<=" -> v <= 0 [] cmp = ">=" -> v >= 0

\* C11: with the tested value in D, the jump of handle_If and handle_While is taken (to the
\* end of the if, to its else block, or out of the loop) exactly when "value cmp 0" is false.
C11_JumpTakenIffFalse ==
    pc \in {"end", "false", "loop_end", "when_true", "body"} =>
        (pc \in {"end", "false", "loop_end"} <=> ~CmpZero(cond.cmp, signed(reg_d)))

\* the loop is left on the most negative word under ">=", which only the sign bit tells from 0
C11_Witness == pc = "loop_end" /\ cond.cmp = ">=" /\ reg_d = 32768

(***************************************************************************)
(* C12.                                                                    *)
(***************************************************************************)
StackLocations(stmts) == { d \in AllNodes(stmts) : d.k = "Location" /\ d.kind = "local" }

\* C12: in the Subroutine phase_two returns, num_vars is the number of locals promoted
\* (each of them stands in the body as a Location of kind "local"), two different
\* promoted locals have different indices, and every index is at least 0 and below num_vars.
C12_StackSlots ==
    pc = "returned" =>
        /\ promoted_count = Cardinality(StackNames(body))
        /\ \A d, e \in StackLocations(body) : d.name # e.name => d.index # e.index
        /\ \A d \in StackLocations(body) : 0 <= d.index /\ d.index < promoted_count

\* locals were promoted in the first pass and in a fallback pass
C12_Witness ==
    /\ pc = "returned"
    /\ rounds >= 1
    /\ need_saving(analyze_liveness(flat, {})) # {}
    /\ promoted_count > Cardinality(need_saving(analyze_liveness(flat, {})))

(***************************************************************************)
(* C13.                                                                    *)
(***************************************************************************)
\* the subroutine is free of calls, x is its only local and "let x = 0;" stands in it
OnlyLocalAssignedZero ==
    /\ pc \in {"flat", "allocating", "returned", "raised"}
    /\ LocalNames(flat) = {"x"}
    /\ \A d \in AllNodes(flat) : d.k # "CallSub"
    /\ Eval(Local("x"), Const(0)) \in AllStatements(flat)

\* C13: for a call-free subroutine whose only local x is assigned by "let x = 0;", phase_two
\* does not raise, it binds x to Reg(0), and the assignment is emitted as "@R5", "M=0".
C13_LetZeroInRegisterZero ==
    OnlyLocalAssignedZero =>
        /\ pc # "raised"
        /\ pc = "returned" =>
             /\ \A d \in AllNodes(body) : d.k = "Reg" => d = Reg(0, "x")
             /\ Eval(Reg(0, "x"), Const(0)) \in AllStatements(body)
             /\ handle_Eval(Eval(Reg(0, "x"), Const(0))) = << "@R5", "M=0" >>

(***************************************************************************)
(* C14.                                                                    *)
(***************************************************************************)
RECURSIVE BeforeSets(_)
\* the before sets of an annotated body, at any nesting depth
BeforeSets(liveness) ==
    IF liveness = <<>> THEN {}
    ELSE LET nested(st) == IF st.k = "If" THEN BeforeSets(st.when_true) \cup BeforeSets(st.when_false)
                           ELSE IF st.k = "While" THEN BeforeSets(st.test) \cup BeforeSets(st.body)
                           ELSE {}
         IN {Head(liveness).before} \cup nested(Head(liveness).statement) \cup BeforeSets(Tail(liveness))

\* the subroutine is free of calls and its ManyLocals locals are all live at one statement
ManyLocalsLiveTogether ==
    /\ pc \in {"flat", "allocating", "returned", "raised"}
    /\ reg_count = DefaultRegCount
    /\ Cardinality(LocalNames(flat)) = ManyLocals
    /\ \A d \in AllNodes(flat) : d.k # "CallSub"
    /\ LocalNames(flat) \in BeforeSets(analyze_liveness(flat, {}))

\* the locals of the source that the returned body holds in registers
LocalRegs == { d \in AllNodes(body) : d.k = "Reg" /\ d.name \in LocalNames(flat) }

\* reg_count locals in registers of their own, the others in the stack slots 0, 1, ...
EightInRegistersFourOnStack ==
    /\ promoted_count = ManyLocals - reg_count
    /\ RegIndices(body) = 0..(reg_count - 1)
    /\ Cardinality({ d.name : d \in LocalRegs }) = reg_count
    /\ \A d, e \in LocalRegs : d.name # e.name => d.index # e.index
    /\ StackNames(body) = LocalNames(flat) \ { d.name : d \in LocalRegs }
    /\ { d.index : d \in StackLocations(body) } = 0..(ManyLocals - reg_count - 1)

InEndLoop == ip \in { label_address(program, "end"), label_address(program, "end") + 1 }

\* the product of the words poked into R0 and R1, as a 16-bit word
Product == unsigned(before.ram[0] * before.ram[1])

\* C15: MULT_ASM, started with R0 = a >= 0 and R1 = b >= 1, is in its (end) loop only
\* with R2 = a * b (mod 2^16).
C15_MultProductAtEnd ==
    (pc = "running" /\ program = MULT_ASM /\ InEndLoop) => ram[2] = Product

\* C16: ASM of run.py, started with R0 = a, R1 = b >= 1 and any R2, reaches its (end) loop
\* and from then on stays in it with R2 = a * b (mod 2^16) and R1 = 0.
C16_ProductReachedAndKept ==
    (pc = "running" /\ program = ASM) => <>[](InEndLoop /\ ram[2] = Product /\ ram[1] = 0)

\* the run of run.py's script: 3 times 1 with R2 poked to -1, and a product that overflows
C16_Witness ==
    /\ pc = "running" /\ program = ASM /\ InEndLoop
    /\ \/ before.ram[0] = 3 /\ before.ram[1] = 1 /\ before.ram[2] = unsigned(-1) /\ ram[2] = 3
       \/ before.ram[0] = 40000 /\ before.ram[1] = 2 /\ ram[2] = 14464

RegIndicesOf(stmts, name) == { d.index : d \in { e \in AllNodes(stmts) : e.k = "Reg" /\ e.name = name } }

\* C18: when the last round of phase_two's loop locks the locals down, two different locals
\* that are together in the before set of a statement of that round's liveness, at any
\* nesting depth, stand in the returned body as registers with different indices.
C18_LiveTogetherInDifferentRegisters ==
    [][(pc = "allocating" /\ pc' = "returned") =>
          \A live \in BeforeSets(analyze_liveness(body, {})) : \A x, y \in live :
              x # y => /\ RegIndicesOf(body', x) # {} /\ RegIndicesOf(body', y) # {}
                       /\ RegIndicesOf(body', x) \cap RegIndicesOf(body', y) = {}]_vars

\* the before sets of the statements inside the If and While statements of an annotated body
InnerBeforeSets(liveness) ==
    UNION { IF l.statement.k = "If"
            THEN BeforeSets(l.statement.when_true) \cup BeforeSets(l.statement.when_false)
            ELSE IF l.statement.k = "While"
            THEN BeforeSets(l.statement.test) \cup BeforeSets(l.statement.body)
            ELSE {} : l \in SeqToSet(liveness) }

\* nothing was promoted, so the last round coloured the flattened body; two locals are live
\* together inside an If or a While of it, and both are in registers
C18_Witness ==
    /\ pc = "returned"
    /\ promoted_count = 0
    /\ \E live \in InnerBeforeSets(analyze_liveness(flat, {})) :
         \E x, y \in live : x # y /\ RegIndicesOf(body, x) # {} /\ RegIndicesOf(body, y) # {}

(***************************************************************************)
(* C19.                                                                    *)
(***************************************************************************)
\* no statement of the annotated list stmts from position j on assigns the local v
NotAssignedFrom(stmts, j, v) == \A i \in j..Len(stmts) : v \notin written(stmts[i].statement)

\* the locals live_after are live before every statement of the test and of the body of the
\* annotated While from which the exit is reached with no assignment to them on the way
LiveAtExitIsLiveInside(loop, live_after) ==
    \A v \in live_after :
        /\ \A j \in 1..Len(loop.test) :
              NotAssignedFrom(loop.test, j, v) => v \in loop.test[j].before
        /\ \A j \in 1..Len(loop.body) :
              (NotAssignedFrom(loop.body, j, v) /\ NotAssignedFrom(loop.test, 1, v))
                  => v \in loop.body[j].before

\* what is live after statement i of an annotated list that ends a subroutine: the before set
\* of the next statement
LiveAfter(liveness, i) == IF i < Len(liveness) THEN liveness[i + 1].before ELSE {}

\* C19: a local that is live after a While is in the before set of every statement of the
\* test and of the body from which the exit of the loop is reached without an assignment to
\* it, the statements of the body that follow an assignment to it among them.
C19_LiveAfterWhileIsLiveInLoop ==
    (pc = "flat" /\ fixed_point_reached(flat, {})) =>
        LET holds(liveness) ==
                \A i \in 1..Len(liveness) :
                    liveness[i].statement.k = "While" =>
                        LiveAtExitIsLiveInside(liveness[i].statement, LiveAfter(liveness, i))
        IN holds(analyze_liveness(flat, {}))

(***************************************************************************)
(* C20.                                                                    *)
(***************************************************************************)
RECURSIVE AllLiveStmts(_)
\* the annotated statements of an annotated body, at any nesting depth
AllLiveStmts(liveness) ==
    IF liveness = <<>> THEN {}
    ELSE LET nested(st) == IF st.k = "If" THEN AllLiveStmts(st.when_true) \cup AllLiveStmts(st.when_false)
                           ELSE IF st.k = "While" THEN AllLiveStmts(st.test) \cup AllLiveStmts(st.body)
                           ELSE {}
         IN {Head(liveness)} \cup nested(Head(liveness).statement) \cup AllLiveStmts(Tail(liveness))

\* C20: a Local that a While tests, and that the statements of the test do not assign, is in
\* the before set of the annotated While, also when the test list is empty and the body
\* assigns the Local before it reads it.
C20_TestedLocalLiveBeforeWhile ==
    (pc = "flat" /\ fixed_point_reached(flat, {})) =>
        \A loop \in AllLiveStmts(analyze_liveness(flat, {})) :
            (/\ loop.statement.k = "While"
             /\ loop.statement.value.k = "Local"
             /\ NotAssignedFrom(loop.statement.test, 1, loop.statement.value.name))
                => loop.statement.value.name \in loop.before

(***************************************************************************)
(* C21.                                                                    *)
(***************************************************************************)
\* C21: for every While of the flattener's body and of the promoter's body,
\* nested ones included, the second analyze_while pass returns the live set
\* of the first, so the assertion "Liveness fixed point not reached" never
\* fails and phase_two never ends in an AssertionError.
C21_LivenessFixedPointReached ==
    /\ pc # "parsed" => fixed_point_reached(flat, {})
    /\ pc = "allocating" => fixed_point_reached(body, {})
    /\ raised # "AssertionError"

\* a promoted body with a While inside a While whose outer loop has locals live at its top
C21_Witness ==
    /\ pc = "allocating" /\ body # flat
    /\ \E w \in AllStatements(body) :
          /\ w.k = "While"
          /\ \E v \in AllStatements(w.body) : v.k = "While"
    /\ \E l \in SeqToSet(analyze_liveness(body, {})) : l.statement.k = "While" /\ l.before # {}

(***************************************************************************)
(* C22.                                                                    *)
(***************************************************************************)
\* the after set of every statement of the list is the before set of the next, and live_at_end for the last
AfterIsLiveOut(liveness, live_at_end) ==
    \A i \in 1..Len(liveness) :
        liveness[i].after = IF i < Len(liveness) THEN liveness[i + 1].before ELSE live_at_end

\* C22: in the list analyze_liveness returns for the flattened body and for
\* every promoted body, the after set of each statement, whatever its kind,
\* is its live-out: the before set of the statement that follows it, and
\* live_at_end (empty for a subroutine body) for the last statement.
C22_AfterIsLiveOut ==
    /\ pc # "parsed" => AfterIsLiveOut(analyze_liveness(flat, {}), {})
    /\ pc = "allocating" => AfterIsLiveOut(analyze_liveness(body, {}), {})

(***************************************************************************)
(* C23.                                                                    *)
(***************************************************************************)
\* the keys of the map of the promote_locals call a step makes: the names that have a stack
\* Location after the step and had none before it
PromotedByStep == StackNames(body') \ StackNames(body)

\* C23: after promote_locals(stmts, map, prefix), in phase_two's first call
\* and in every fallback call, no Local that is a key of map occurs in the
\* result, as a destination, an operand, an address or a tested or returned
\* value, at any nesting depth.
C23_NoPromotedLocalLeft ==
    [][pc' = "allocating" => PromotedByStep \cap LocalNames(body') = {}]_vars

(***************************************************************************)
(* C24.                                                                    *)
(***************************************************************************)
\* C24: within one run of phase_two the prefix handed to promote_locals
\* differs from the prefix of every earlier call, also when the fallback
\* runs two or more times.
C24_PrefixesDistinct ==
    \A i, j \in 1..Len(prefixes) : i # j => prefixes[i] # prefixes[j]

(***************************************************************************)
(* C25.                                                                    *)
(***************************************************************************)
\* C25: a fallback pass of phase_two, the promotion of the colour classes
\* with index >= reg_count, leaves the body with strictly fewer distinct
\* Local names than it had.
C25_FallbackLeavesFewerLocals ==
    [][(pc = "allocating" /\ pc' = "allocating")
           => Cardinality(LocalNames(body')) < Cardinality(LocalNames(body))]_vars

(***************************************************************************)
(* C26.                                                                    *)
(***************************************************************************)
\* C26: no two colour sets of color_graph's result could be merged: between
\* any two different sets there is an edge with one end in each, and every
\* vertex of a set has a neighbour in each of the sets before it.
C26_NoTwoSetsMergeable ==
    pc = "colored" =>
        /\ \A i, j \in 1..Len(color_sets) :
               i # j => \E e \in edges : \/ (e[1] \in color_sets[i] /\ e[2] \in color_sets[j])
                                        \/ (e[2] \in color_sets[i] /\ e[1] \in color_sets[j])
        /\ \A j \in 1..Len(color_sets) : \A v \in color_sets[j] : \A i \in 1..(j - 1) :
               adjacency(v, edges) \cap color_sets[i] # {}

\* as many colour sets as there are vertices: every vertex is joined to every other
C26_Witness ==
    /\ pc = "colored"
    /\ Len(color_sets) = MaxVertices
    /\ edges # {}

(***************************************************************************)
(* C27.                                                                    *)
(***************************************************************************)
\* C27: for "x op y" with op one of <, >, = the If that tests the lowered
\* condition, d = x - y as a 16-bit word against zero, runs its guarded
\* statements exactly when x op y holds for the signed values of the two
\* words, the pairs whose difference overflows included.
C27_DifferenceTestIsComparison ==
    (cond # NoExpr /\ pc \in {"end", "when_true"}) =>
        (pc = "when_true" <=> JackHolds(cond.op, signed(before.ram[5]), signed(before.ram[6])))

(***************************************************************************)
(* C28.                                                                    *)
(***************************************************************************)
\* the translated statement has been run to its end
EvalDone == cond = NoExpr /\ pc = "translated" /\ ip = Len(program)

\* the statement is Eval(Reg i, Binary(Reg i, op, Const c)) with op + or - and c in -1..1
InPlaceImmediate(st) ==
    /\ st.expr.k = "Binary" /\ st.expr.left = st.dest /\ st.expr.op \in {"+", "-"}
    /\ st.expr.right.k = "Const" /\ st.expr.right.value \in -1..1

\* old op c
Updated(op, old, c) == IF op = "+" THEN old + c ELSE old - c

\* C28: for Eval(Reg i, Binary(Reg i, op, Const c)) with op + or - and c in
\* -1..1, handle_Eval emits nothing when c = 0 and otherwise "@R<5+i>" and
\* "M=M+1" or "M=M-1"; run, the output leaves (old value op c) mod 2^16 in
\* the register and D and every other register as they were.
C28_InPlaceUpdate ==
    (EvalDone /\ InPlaceImmediate(body[1])) =>
        LET st == body[1]
            r == 5 + st.dest.index
            step == Updated(st.expr.op, 0, st.expr.right.value)
        IN /\ program = IF step = 0 THEN <<>>
                        ELSE << "@R" \o ToString(r), IF step = 1 THEN "M=M+1" ELSE "M=M-1" >>
           /\ ram[r] = unsigned(Updated(st.expr.op, before.ram[r], st.expr.right.value))
           /\ reg_d = before.D
           /\ \A address \in DOMAIN ram : address # r => ram[address] = before.ram[address]

\* x - (-1) run on the largest word, which wraps to 0, with a value in D and in the other register
C28_Witness ==
    /\ EvalDone /\ InPlaceImmediate(body[1])
    /\ body[1].expr.op = "-" /\ body[1].expr.right.value = -1
    /\ before.ram[5 + body[1].dest.index] = unsigned(-1)
    /\ ram[5 + body[1].dest.index] = 0
    /\ reg_d # 0 /\ \E address \in DOMAIN ram : address # 5 + body[1].dest.index /\ ram[address] # 0

(***************************************************************************)
(* C29.                                                                    *)
(***************************************************************************)
\* C29: for Eval(Reg i, Unary(op, Reg i)) with op - or ~, handle_Eval emits
\* the two instructions "@R<5+i>" and "M=-M" or "M=!M": the register is
\* updated in place and D is not written.
C29_UnaryInPlace ==
    (EvalDone /\ body[1].expr.k = "Unary" /\ body[1].expr.value = body[1].dest) =>
        /\ program = << "@R" \o ToString(5 + body[1].dest.index),
                        IF body[1].expr.op = "-" THEN "M=-M" ELSE "M=!M" >>
        /\ reg_d = before.D

\* C30: with non_back_edge_mask = 0, when get() or get_internal() returns
\* normally, one more pass over combine_ops changes no bit of traces and dirty
\* is False; and when neither traces nor what any of the first four passes
\* leaves is such a fixed point, the call raises.
RECURSIVE passes_from(_, _, _)
passes_from(ops, ts, n) == IF n = 0 THEN ts ELSE passes_from(ops, combine_pass(ops, ts), n - 1)

IsFixedPoint(ops, ts) == combine_pass(ops, ts) = ts

C30_GetLeavesFixedPoint ==
    [][(last'.call \in {"get", "get_internal"}) =>
          /\ ~last'.raised => (IsFixedPoint(combine_ops', traces') /\ dirty' = FALSE)
          /\ (\A n \in 0..limit : ~IsFixedPoint(combine_ops, passes_from(combine_ops, traces, n))) => last'.raised]_vars

C30_Witness ==
    /\ last.call \in {"get", "get_internal"}
    /\ ~last.raised
    /\ last.passes = limit
    /\ IsFixedPoint(combine_ops, traces)
    /\ dirty = FALSE

====
